---- MODULE Spec2Model ----
(***************************************************************************)
(* The upgrade-tree economy engine of src/upgrade-system/upgrade-manager.js *)
(* (PropertyState, NodeState, UpgradeManager) as a state machine.           *)
(*                                                                          *)
(* Numbers that are fractional in the program (baseValue, valuePerLevel,    *)
(* property values, stats) are held in thousandths: 1.0 is 1000, 0.1 is     *)
(* 100.  Currency, costs and levels are plain integers, as in the program.  *)
(***************************************************************************)
EXTENDS Integers, Sequences, FiniteSets, TLC

(***************************************************************************)
(* Bounds of the model                                                      *)
(***************************************************************************)
\* addCurrency is not called once totalEarned would pass this value
MaxEarned == 24

(***************************************************************************)
(* Generic helpers                                                          *)
(***************************************************************************)
\* Math.ceil(a / b) for b > 0
Ceil(a, b) == -((-a) \div b)

\* Math.abs
Abs(x) == IF x < 0 THEN -x ELSE x

\* Math.min
Min(a, b) == IF a <= b THEN a ELSE b

RECURSIVE Pow(_, _)
\* b^e for e >= 0
Pow(b, e) == IF e <= 0 THEN 1 ELSE b * Pow(b, e - 1)

\* Math.pow(n, 0.5); the configuration below only uses perfect squares
Sqrt(n) == CHOOSE r \in 0..n : r * r <= n /\ (r + 1) * (r + 1) > n

RECURSIVE SumSeq(_)
\* Array.prototype.reduce((sum, x) => sum + x, 0)
SumSeq(s) == IF s = <<>> THEN 0 ELSE Head(s) + SumSeq(Tail(s))

(***************************************************************************)
(* The configuration handed to the constructor (options.nodeConfigs)        *)
(***************************************************************************)
\* new PropertyState(config): the fields a property keeps from its config
PropertyState(id, baseValue, valuePerLevel, maxLevel, effectType, costTier) ==
    [id |-> id, baseValue |-> baseValue, valuePerLevel |-> valuePerLevel,
     maxLevel |-> maxLevel, effectType |-> effectType, costTier |-> costTier]

\* new NodeState(config): parentId "" stands for null (config.parentId || null)
NodeState(id, parentId, requiredParentLevel, isRoot, properties) ==
    [id |-> id, parentId |-> parentId,
     requiredParentLevel |-> requiredParentLevel, isRoot |-> isRoot,
     properties |-> properties]

\* A small tree in the shape of the default one: a root with two properties,
\* two children gated at parent levels 2 and 1, a grandchild gated at 0, and
\* a node whose parent is not in the tree.
nodeConfigs ==
    << NodeState("dot", "", 0, TRUE,
           << PropertyState("dotSpeed", 1000, 100, 1, "multiply", "cheap"),
              PropertyState("coinGain", 0, 100, 4, "add", "cheap") >>),
       NodeState("attract", "dot", 2, FALSE,
           << PropertyState("attractStrength", 1000, 100, 1, "multiply", "cheap") >>),
       NodeState("repel", "dot", 1, FALSE,
           << PropertyState("annihalationCost", 10000, -100, 1, "add", "cheap") >>),
       NodeState("attractAdvanced", "attract", 0, FALSE,
           << PropertyState("treatAttraction", 0, 100, 1, "add", "cheap") >>),
       NodeState("lost", "nowhere", 0, FALSE,
           << PropertyState("mystery", 1000, 100, 1, "multiply", "cheap") >>) >>

\* this.nodes: the keys of the Map built by _initializeNodes
nodes == { nodeConfigs[i].id : i \in 1..Len(nodeConfigs) }

\* the Map built by _initializeNodes: id -> node
nodeMap ==
    [id \in nodes |->
        nodeConfigs[CHOOSE i \in 1..Len(nodeConfigs) : nodeConfigs[i].id = id]]

\* this.nodes.get(id), for an id the Map holds
getNode(id) == nodeMap[id]

\* The property ids of a node of the tree
PropIds(n) == { getNode(n).properties[i].id : i \in 1..Len(getNode(n).properties) }

\* The (nodeId, propId) arguments a caller passes: every property of every
\* node, an unknown property id on every node, and an unknown node id
Args ==
    (UNION { { <<n, p>> : p \in (PropIds(n) \cup {"bogus"}) } : n \in nodes })
        \cup { <<"ghost", "dotSpeed">> }

(***************************************************************************)
(* Cost calculator                                                          *)
(***************************************************************************)
\* costTiers of _defaultCostCalculator; scaling in hundredths (1.05 is 105)
costTiers(costTier) ==
    CASE costTier = "cheap"     -> [base |-> 1, scaling |-> 105]
      [] costTier = "standard"  -> [base |-> 2, scaling |-> 110]
      [] costTier = "expensive" -> [base |-> 3, scaling |-> 115]
      [] costTier = "premium"   -> [base |-> 5, scaling |-> 120]
      [] OTHER                  -> [base |-> 2, scaling |-> 110]

\* property.id.includes('spawn') || property.id.includes('annihilation'),
\* decided for the ids the stats map and the configuration know
IncludesSpawnOrAnnihilation(id) ==
    id \in {"spawnDotOnTreat", "spawnTreatOnDeath", "spawnCollectorOnTreat",
            "spawnedDotAnnihilation"}

\* TierMultipliers of the schema, in thousandths: 1 is "Root and immediate
\* children", 2 "Second level nodes", 3 "Third level and beyond"
TierMultipliers(tier) ==
    CASE tier = 1 -> 1000
      [] tier = 2 -> 1500
      [] OTHER    -> 2000

RECURSIVE TierWalk(_, _)
\* the while loop of _getNodeTier: one step up the parentId chain per round
TierWalk(current, depth) ==
    IF current.parentId = "" THEN depth
    ELSE IF current.parentId \notin nodes THEN depth + 1
    ELSE TierWalk(getNode(current.parentId), depth + 1)

\* _getNodeTier(nodeId)
_getNodeTier(nodeId) ==
    IF nodeId \notin nodes THEN 1
    ELSE IF getNode(nodeId).isRoot THEN 1
    ELSE Min(TierWalk(getNode(nodeId), 1), 3)

\* impactScore of _defaultCostCalculator, in thousandths
impactScore(property) ==
    LET s1 == 1000 + Abs(property.valuePerLevel) * 10
        s2 == IF property.effectType = "multiply" THEN (s1 * 3) \div 2 ELSE s1
        s3 == s2 * Sqrt(property.maxLevel)
    IN  IF IncludesSpawnOrAnnihilation(property.id) THEN (s3 * 18) \div 10 ELSE s3

\* _defaultCostCalculator(property, level, nodeId):
\* Math.ceil(baseCost * Math.pow(config.scaling, level - 1))
_defaultCostCalculator(property, lvl, nodeId) ==
    LET tier     == _getNodeTier(nodeId)
        config   == costTiers(property.costTier)
        baseCost == Ceil(impactScore(property) * config.base * tier, 1000)
        e        == lvl - 1
    IN  IF e >= 0 THEN Ceil(baseCost * Pow(config.scaling, e), Pow(100, e))
        ELSE Ceil(baseCost * Pow(100, -e), Pow(config.scaling, -e))

\* this.costCalculator (options.costCalculator || this._defaultCostCalculator)
costCalculator(property, lvl, nodeId) == _defaultCostCalculator(property, lvl, nodeId)

(***************************************************************************)
(* State                                                                    *)
(***************************************************************************)
VARIABLES
    currency,          \* this.currency
    totalEarned,       \* this.totalEarned
    level,             \* level[n][i]: PropertyState.level of property i of node n
    statsCache,        \* this._statsCache (Null before the first getStats)
    statsCacheValid,   \* this._statsCacheValid
    result,            \* the last call and what it returned
    delivered          \* the events the last call handed to its listeners

vars == <<currency, totalEarned, level, statsCache, statsCacheValid, result,
          delivered>>

\* null, as the value of _statsCache
Null == [s \in {} |-> 0]

\* The last call: its name, its arguments ("" where it takes none) and what it
\* returned: success, error ("" for none), the child an error message names
\* ("" for none), the cost or refund and the new level (-1 for absent)
Call(op, nodeId, propId, success, error, child, amount, newLevel) ==
    [op |-> op, nodeId |-> nodeId, propId |-> propId, success |-> success,
     error |-> error, child |-> child, amount |-> amount, newLevel |-> newLevel]

\* a call without arguments or return value
Result(op) == Call(op, "", "", TRUE, "", "", -1, -1)

\* the level of every property after construction (this.level = 0)
ZeroLevels == [n \in nodes |-> [i \in 1..Len(getNode(n).properties) |-> 0]]

(***************************************************************************)
(* PropertyState / NodeState queries                                        *)
(***************************************************************************)
\* NodeState.getProperty(propId): index of the first property with that id,
\* 0 for null
getProperty(node, propId) ==
    IF \E i \in 1..Len(node.properties) : node.properties[i].id = propId
    THEN CHOOSE i \in 1..Len(node.properties) :
             /\ node.properties[i].id = propId
             /\ \A j \in 1..(i - 1) : node.properties[j].id # propId
    ELSE 0

\* NodeState.getLevel(): sum of the property levels
getLevel(nodeId) == SumSeq(level[nodeId])

\* NodeState.hasInvestment()
hasInvestment(nodeId) == getLevel(nodeId) > 0

\* UpgradeManager.getChildren(parentId), in Map insertion order
getChildren(parentId) ==
    SelectSeq([i \in 1..Len(nodeConfigs) |-> nodeConfigs[i].id],
              LAMBDA c : getNode(c).parentId = parentId)

\* isNodeUnlocked asking for exactly the required parent level
isNodeUnlocked_exactLevel(nodeId) ==
    IF nodeId \notin nodes THEN FALSE
    ELSE LET node == getNode(nodeId)
         IN  IF node.isRoot THEN TRUE
             ELSE IF node.parentId = "" THEN TRUE
             ELSE IF node.parentId \notin nodes THEN FALSE
             ELSE getLevel(node.parentId) = node.requiredParentLevel

\* UpgradeManager.isNodeUnlocked(nodeId)
isNodeUnlocked(nodeId) ==
    IF nodeId \notin nodes THEN FALSE
    ELSE LET node == getNode(nodeId)
         IN  IF node.isRoot THEN TRUE
             ELSE IF node.parentId = "" THEN TRUE
             ELSE IF node.parentId \notin nodes THEN FALSE
             ELSE getLevel(node.parentId) >= node.requiredParentLevel

\* upgrade() incrementing twice
upgrade_twice(lvl, maxLevel) == IF lvl >= maxLevel THEN lvl ELSE lvl + 2

\* PropertyState.upgrade(): the level it leaves
upgrade(lvl, maxLevel) == IF lvl >= maxLevel THEN lvl ELSE lvl + 1

\* PropertyState.refund(): the level it leaves
refund(lvl) == IF lvl <= 0 THEN lvl ELSE lvl - 1

\* PropertyState.canUpgrade()
canUpgrade(nodeId, i) == level[nodeId][i] < getNode(nodeId).properties[i].maxLevel

\* PropertyState.canRefund()
canRefund(nodeId, i) == level[nodeId][i] > 0

\* getUpgradeCost pricing the current level instead of the next one
getUpgradeCost_currentLevel(nodeId, i) ==
    costCalculator(getNode(nodeId).properties[i], level[nodeId][i], nodeId)

\* PropertyState.getUpgradeCost(costCalculator, nodeId), called when canUpgrade
getUpgradeCost(nodeId, i) ==
    costCalculator(getNode(nodeId).properties[i], level[nodeId][i] + 1, nodeId)

\* getRefundAmount pricing the next level instead of the current one
getRefundAmount_nextLevel(nodeId, i) ==
    IF level[nodeId][i] <= 0 THEN 0
    ELSE costCalculator(getNode(nodeId).properties[i], level[nodeId][i] + 1, nodeId)

\* PropertyState.getRefundAmount(costCalculator, nodeId)
getRefundAmount(nodeId, i) ==
    IF level[nodeId][i] <= 0 THEN 0
    ELSE costCalculator(getNode(nodeId).properties[i], level[nodeId][i], nodeId)

\* canAfford that only looks at the balance
canAfford_any(cost) == currency >= 0

\* UpgradeManager.canAfford(cost)
canAfford(cost) == currency >= cost

(***************************************************************************)
(* Stats aggregation                                                        *)
(***************************************************************************)
\* PropertyState.getValue() at a given level, in thousandths
getValue(property, lvl) ==
    CASE property.effectType = "multiply" ->
             (property.baseValue * (1000 + lvl * property.valuePerLevel)) \div 1000
      [] property.effectType = "add" ->
             property.baseValue + lvl * property.valuePerLevel
      [] property.effectType = "replace" ->
             IF lvl > 0 THEN property.valuePerLevel * lvl ELSE property.baseValue
      [] OTHER -> property.baseValue

\* the base values getStats starts from, in thousandths
baseStats ==
    [attractStrength |-> 1000, attractRadius |-> 1000, repelStrength |-> 1000,
     repelRadius |-> 1000, dotSpeed |-> 1000,
     treatAttraction |-> 0, attractTreats |-> 0, lawOfAttractionRadius |-> 1000,
     dangerRepulsion |-> 0, goldDiggerRepulsion |-> 0,
     spawnDotOnTreat |-> 0, spawnTreatOnDeath |-> 0, treatSpawnChance |-> 0,
     coinGain |-> 0, annihalationCost |-> 10000,
     spawnedDotAnnihilation |-> 0, kamikaze |-> 0]

\* the body of the inner loop of getStats for one property
aggregateProperty(stats, property, lvl) ==
    IF property.id \in DOMAIN stats
    THEN LET value == getValue(property, lvl)
         IN  IF property.effectType = "multiply"
             THEN [stats EXCEPT ![property.id] = (@ * value) \div 1000]
             ELSE [stats EXCEPT ![property.id] = @ + (value - property.baseValue)]
    ELSE stats

RECURSIVE aggregateNode(_, _, _, _)
\* for (const prop of node.properties), from property i on
aggregateNode(stats, node, lv, i) ==
    IF i > Len(node.properties) THEN stats
    ELSE aggregateNode(aggregateProperty(stats, node.properties[i], lv[node.id][i]),
                       node, lv, i + 1)

RECURSIVE aggregate(_, _, _)
\* for (const node of this.nodes.values()), from node k on
aggregate(stats, lv, k) ==
    IF k > Len(nodeConfigs) THEN stats
    ELSE aggregate(aggregateNode(stats, nodeConfigs[k], lv, 1), lv, k + 1)

\* the stats object getStats builds when it does not answer from the cache
computeStats(lv) == aggregate(baseStats, lv, 1)

\* _invalidateCache leaving the flag as it is
_invalidateCache_noop(valid) == valid

\* _invalidateCache(): the new value of _statsCacheValid
_invalidateCache(valid) == FALSE

\* getStats(): what it returns, and what it leaves in _statsCache, given the
\* flag, the cache and the levels it is called with
getStats(valid, cache, lv) ==
    IF valid /\ cache # Null THEN cache ELSE computeStats(lv)

(***************************************************************************)
(* Events                                                                   *)
(***************************************************************************)
\* _emit(event, data): the callbacks of the event run before _emit returns;
\* a callback is handed data and, reading the manager, finds the currency,
\* the levels and the getStats() of the moment of the call
_emit(log, event, data, cur, lv, stats) ==
    Append(log, [event |-> event, data |-> data,
                 currency |-> cur, level |-> lv, stats |-> stats])

(***************************************************************************)
(* Initial state: a freshly constructed UpgradeManager                      *)
(***************************************************************************)
Init ==
    /\ currency = 0
    /\ totalEarned = 0
    /\ level = ZeroLevels
    /\ statsCache = Null
    /\ statsCacheValid = FALSE
    /\ result = Result("new")
    /\ delivered = <<>>

(***************************************************************************)
(* Operations                                                               *)
(***************************************************************************)
\* amounts a caller passes to addCurrency
AddAmounts == {-1, 0, 8}

\* addCurrency(amount)
addCurrency(amount) ==
    /\ totalEarned + amount <= MaxEarned
    /\ IF amount <= 0
       THEN /\ UNCHANGED <<currency, totalEarned>>
            /\ delivered' = <<>>
       ELSE /\ currency' = currency + amount
            /\ totalEarned' = totalEarned + amount
            /\ delivered' =
                   _emit(<<>>, "currencyChange",
                         [currency |-> currency', added |-> amount],
                         currency', level,
                         getStats(statsCacheValid, statsCache, level))
    /\ result' = Result("addCurrency")
    /\ UNCHANGED <<level, statsCache, statsCacheValid>>

\* a call that returns { success: false, ... } without touching the state
Reject(op, nodeId, propId, error, child, amount) ==
    /\ result' = Call(op, nodeId, propId, FALSE, error, child, amount, -1)
    /\ delivered' = <<>>
    /\ UNCHANGED <<currency, totalEarned, level, statsCache, statsCacheValid>>

\* the cost deducted before the affordability check
insufficientCurrency_deductFirst(nodeId, propId, cost) ==
    /\ result' = Call("purchaseUpgrade", nodeId, propId, FALSE,
                      "Insufficient currency", "", cost, -1)
    /\ currency' = currency - cost
    /\ delivered' = <<>>
    /\ UNCHANGED <<totalEarned, level, statsCache, statsCacheValid>>

\* the return of purchaseUpgrade when the cost cannot be afforded
insufficientCurrency(nodeId, propId, cost) ==
    Reject("purchaseUpgrade", nodeId, propId, "Insufficient currency", "", cost)

\* the "Check if this unlocked any children" loop of purchaseUpgrade: the
\* ids it pushes to `unlocked`, in Map order
unlockedChildren(nodeId) ==
    SelectSeq(getChildren(nodeId),
              LAMBDA c : isNodeUnlocked(c) /\ ~hasInvestment(c))

\* purchaseUpgrade emitting statsChange before currencyChange
emitUpgrade_statsFirst(nodeId, propId, cost, unlocked, stats) ==
    LET e1 == _emit(<<>>, "upgrade",
                    [nodeId |-> nodeId, propId |-> propId, cost |-> cost,
                     newLevel |-> level'[nodeId][getProperty(getNode(nodeId), propId)]],
                    currency', level', stats)
        e2 == _emit(e1, "statsChange", [stats |-> stats],
                    currency', level', stats)
        e3 == _emit(e2, "currencyChange",
                    [currency |-> currency', spent |-> cost],
                    currency', level', stats)
    IN  IF Len(unlocked) > 0
        THEN _emit(e3, "unlock", [nodeIds |-> unlocked], currency', level', stats)
        ELSE e3

\* the _emit calls that end purchaseUpgrade, made after the upgrade: upgrade,
\* currencyChange, statsChange and, if `unlocked` is not empty, unlock; stats
\* is what getStats() answers after the upgrade and its _invalidateCache()
emitUpgrade(nodeId, propId, cost, unlocked, stats) ==
    LET e1 == _emit(<<>>, "upgrade",
                    [nodeId |-> nodeId, propId |-> propId, cost |-> cost,
                     newLevel |-> level'[nodeId][getProperty(getNode(nodeId), propId)]],
                    currency', level', stats)
        e2 == _emit(e1, "currencyChange",
                    [currency |-> currency', spent |-> cost],
                    currency', level', stats)
        e3 == _emit(e2, "statsChange", [stats |-> stats],
                    currency', level', stats)
    IN  IF Len(unlocked) > 0
        THEN _emit(e3, "unlock", [nodeIds |-> unlocked], currency', level', stats)
        ELSE e3

\* the "Perform upgrade" part of purchaseUpgrade
performUpgrade(nodeId, i, cost) ==
    /\ currency' = currency - cost
    /\ level' = [level EXCEPT ![nodeId][i] =
                    upgrade(@, getNode(nodeId).properties[i].maxLevel)]
    /\ statsCache' = getStats(_invalidateCache(statsCacheValid), statsCache, level')
    /\ statsCacheValid' = TRUE
    /\ delivered' = emitUpgrade(nodeId, getNode(nodeId).properties[i].id, cost,
                                unlockedChildren(nodeId)', statsCache')
    /\ result' = Call("purchaseUpgrade", nodeId, getNode(nodeId).properties[i].id,
                      TRUE, "", "", cost, level'[nodeId][i])
    /\ UNCHANGED totalEarned

\* purchaseUpgrade resolving the property before the lock check, in the order
\* refundUpgrade resolves it
purchaseUpgrade_propFirst(nodeId, propId) ==
    IF nodeId \notin nodes
    THEN Reject("purchaseUpgrade", nodeId, propId, "Invalid node ID", "", -1)
    ELSE LET i == getProperty(getNode(nodeId), propId)
         IN  IF i = 0
             THEN Reject("purchaseUpgrade", nodeId, propId, "Invalid property ID", "", -1)
             ELSE IF ~isNodeUnlocked(nodeId)
             THEN Reject("purchaseUpgrade", nodeId, propId, "Node is locked", "", -1)
             ELSE IF ~canUpgrade(nodeId, i)
             THEN Reject("purchaseUpgrade", nodeId, propId, "Property at max level", "", -1)
             ELSE LET cost == getUpgradeCost(nodeId, i)
                  IN  IF ~canAfford(cost)
                      THEN insufficientCurrency(nodeId, propId, cost)
                      ELSE performUpgrade(nodeId, i, cost)

\* purchaseUpgrade(nodeId, propId)
purchaseUpgrade(nodeId, propId) ==
    IF nodeId \notin nodes
    THEN Reject("purchaseUpgrade", nodeId, propId, "Invalid node ID", "", -1)
    ELSE IF ~isNodeUnlocked(nodeId)
    THEN Reject("purchaseUpgrade", nodeId, propId, "Node is locked", "", -1)
    ELSE LET i == getProperty(getNode(nodeId), propId)
         IN  IF i = 0
             THEN Reject("purchaseUpgrade", nodeId, propId, "Invalid property ID", "", -1)
             ELSE IF ~canUpgrade(nodeId, i)
             THEN Reject("purchaseUpgrade", nodeId, propId, "Property at max level", "", -1)
             ELSE LET cost == getUpgradeCost(nodeId, i)
                  IN  IF ~canAfford(cost)
                      THEN insufficientCurrency(nodeId, propId, cost)
                      ELSE performUpgrade(nodeId, i, cost)

\* the child guard comparing the level before the refund (no "- 1")
blockingChildren_offByOne(nodeId, newLevel) ==
    SelectSeq(getChildren(nodeId),
              LAMBDA c : hasInvestment(c)
                         /\ newLevel + 1 < getNode(c).requiredParentLevel)

\* the child guard without the hasInvestment() condition
blockingChildren_anyChild(nodeId, newLevel) ==
    SelectSeq(getChildren(nodeId),
              LAMBDA c : newLevel < getNode(c).requiredParentLevel)

\* the child-investment guard of refundUpgrade: the children that block a
\* refund bringing the node to newLevel, in Map order
blockingChildren(nodeId, newLevel) ==
    SelectSeq(getChildren(nodeId),
              LAMBDA c : hasInvestment(c) /\ newLevel < getNode(c).requiredParentLevel)

\* the _emit calls that end refundUpgrade, made after the refund: refund,
\* currencyChange, statsChange; stats is what getStats() answers after the
\* refund and its _invalidateCache()
emitRefund(nodeId, propId, amount, stats) ==
    LET e1 == _emit(<<>>, "refund",
                    [nodeId |-> nodeId, propId |-> propId, refund |-> amount,
                     newLevel |-> level'[nodeId][getProperty(getNode(nodeId), propId)]],
                    currency', level', stats)
        e2 == _emit(e1, "currencyChange",
                    [currency |-> currency', refunded |-> amount],
                    currency', level', stats)
    IN  _emit(e2, "statsChange", [stats |-> stats], currency', level', stats)

\* the "Perform refund" part of refundUpgrade
performRefund(nodeId, i) ==
    LET amount == getRefundAmount(nodeId, i)
    IN  /\ level' = [level EXCEPT ![nodeId][i] = refund(@)]
        /\ currency' = currency + amount
        /\ statsCache' = getStats(_invalidateCache(statsCacheValid), statsCache, level')
        /\ statsCacheValid' = TRUE
        /\ delivered' = emitRefund(nodeId, getNode(nodeId).properties[i].id, amount,
                                   statsCache')
        /\ result' = Call("refundUpgrade", nodeId, getNode(nodeId).properties[i].id,
                          TRUE, "", "", amount, level'[nodeId][i])
        /\ UNCHANGED totalEarned

\* refundUpgrade(nodeId, propId); the error of the child guard carries the
\* blocking child ("Would lock invested child: <name>")
refundUpgrade(nodeId, propId) ==
    IF nodeId \notin nodes
    THEN Reject("refundUpgrade", nodeId, propId, "Invalid node ID", "", -1)
    ELSE LET i == getProperty(getNode(nodeId), propId)
         IN  IF i = 0
             THEN Reject("refundUpgrade", nodeId, propId, "Invalid property ID", "", -1)
             ELSE IF ~canRefund(nodeId, i)
             THEN Reject("refundUpgrade", nodeId, propId, "Property at level 0", "", -1)
             ELSE LET blocking == blockingChildren(nodeId, getLevel(nodeId) - 1)
                  IN  IF blocking # <<>>
                      THEN Reject("refundUpgrade", nodeId, propId,
                                  "Would lock invested child", Head(blocking), -1)
                      ELSE performRefund(nodeId, i)

\* what canUpgradeProperty / canRefundProperty return: the verdict, the
\* reason ("" for none) and the cost or refund (-1 for absent)
Verdict(can, reason, amount) == [can |-> can, reason |-> reason, amount |-> amount]

\* canUpgradeProperty(nodeId, propId)
canUpgradeProperty(nodeId, propId) ==
    IF nodeId \notin nodes THEN Verdict(FALSE, "Invalid node", -1)
    ELSE IF ~isNodeUnlocked(nodeId) THEN Verdict(FALSE, "Node locked", -1)
    ELSE LET i == getProperty(getNode(nodeId), propId)
         IN  IF i = 0 THEN Verdict(FALSE, "Invalid property", -1)
             ELSE IF ~canUpgrade(nodeId, i)
             THEN Verdict(FALSE, "Max level reached", -1)
             ELSE LET cost == getUpgradeCost(nodeId, i)
                  IN  IF ~canAfford(cost)
                      THEN Verdict(FALSE, "Insufficient currency", cost)
                      ELSE Verdict(TRUE, "", cost)

\* canRefundProperty without the loop over the children
canRefundProperty_noChildCheck(nodeId, propId) ==
    IF nodeId \notin nodes THEN Verdict(FALSE, "Invalid node", -1)
    ELSE LET i == getProperty(getNode(nodeId), propId)
         IN  IF i = 0 THEN Verdict(FALSE, "Invalid property", -1)
             ELSE IF ~canRefund(nodeId, i)
             THEN Verdict(FALSE, "Already at level 0", -1)
             ELSE Verdict(TRUE, "", getRefundAmount(nodeId, i))

\* canRefundProperty(nodeId, propId); its child loop is written out in the
\* method, with the same condition as the one of refundUpgrade
canRefundProperty(nodeId, propId) ==
    IF nodeId \notin nodes THEN Verdict(FALSE, "Invalid node", -1)
    ELSE LET i == getProperty(getNode(nodeId), propId)
         IN  IF i = 0 THEN Verdict(FALSE, "Invalid property", -1)
             ELSE IF ~canRefund(nodeId, i)
             THEN Verdict(FALSE, "Already at level 0", -1)
             ELSE LET newLevel == getLevel(nodeId) - 1
                  IN  IF \E k \in 1..Len(getChildren(nodeId)) :
                             LET child == getChildren(nodeId)[k]
                             IN  /\ hasInvestment(child)
                                 /\ newLevel < getNode(child).requiredParentLevel
                      THEN Verdict(FALSE, "Would lock invested child", -1)
                      ELSE Verdict(TRUE, "", getRefundAmount(nodeId, i))

\* getStats() called from outside
GetStats ==
    /\ statsCache' = getStats(statsCacheValid, statsCache, level)
    /\ statsCacheValid' = TRUE
    /\ result' = Result("getStats")
    /\ delivered' = <<>>
    /\ UNCHANGED <<currency, totalEarned, level>>

\* the body of resetUpgrades: the loop over every property, the invalidation
\* and the getStats of the statsChange event
resetLevels ==
    /\ level' = [n \in nodes |-> [i \in DOMAIN level[n] |-> 0]]
    /\ statsCache' = getStats(_invalidateCache(statsCacheValid), statsCache, level')
    /\ statsCacheValid' = TRUE

\* the statsChange event that ends resetUpgrades; its getStats() is the one
\* that refills the cache
emitReset ==
    _emit(<<>>, "statsChange", [stats |-> statsCache'], currency', level',
          statsCache')

\* resetUpgrades clearing the currency history as fullReset does
resetUpgrades_clearsEarned ==
    /\ resetLevels
    /\ totalEarned' = 0
    /\ result' = Result("resetUpgrades")
    /\ UNCHANGED currency
    /\ delivered' = emitReset

\* resetUpgrades()
resetUpgrades ==
    /\ resetLevels
    /\ result' = Result("resetUpgrades")
    /\ UNCHANGED <<currency, totalEarned>>
    /\ delivered' = emitReset

\* fullReset(): resetUpgrades() runs with the currency already cleared, then
\* currencyChange is emitted
fullReset ==
    /\ currency' = 0
    /\ totalEarned' = 0
    /\ resetLevels
    /\ result' = Result("fullReset")
    /\ delivered' = _emit(emitReset, "currencyChange", [currency |-> 0],
                          currency', level', statsCache')

\* PropertyState.deserialize(data): typeof data.level === 'number' is "the
\* entry has a level field"
deserializeProperty(lv, nodeId, i, propData) ==
    IF "level" \in DOMAIN propData
    THEN [lv EXCEPT ![nodeId][i] =
             Min(propData.level, getNode(nodeId).properties[i].maxLevel)]
    ELSE lv

RECURSIVE deserializeNode_stopsAtUnknown(_, _, _, _)
\* NodeState.deserialize leaving its loop at the first entry whose id the
\* node does not have
deserializeNode_stopsAtUnknown(lv, nodeId, properties, k) ==
    IF k > Len(properties) THEN lv
    ELSE LET i == getProperty(getNode(nodeId), properties[k].id)
         IN  IF i = 0 THEN lv
             ELSE deserializeNode_stopsAtUnknown(
                      deserializeProperty(lv, nodeId, i, properties[k]),
                      nodeId, properties, k + 1)

RECURSIVE deserializeNode(_, _, _, _)
\* NodeState.deserialize(data): for (const propData of data.properties),
\* from entry k on
deserializeNode(lv, nodeId, properties, k) ==
    IF k > Len(properties) THEN lv
    ELSE LET i == getProperty(getNode(nodeId), properties[k].id)
         IN  deserializeNode(IF i # 0
                             THEN deserializeProperty(lv, nodeId, i, properties[k])
                             ELSE lv,
                             nodeId, properties, k + 1)

RECURSIVE deserializeNodes(_, _, _)
\* for (const nodeData of data.nodes) of UpgradeManager.deserialize, from
\* entry k on
deserializeNodes(lv, nodesData, k) ==
    IF k > Len(nodesData) THEN lv
    ELSE deserializeNodes(IF nodesData[k].id \in nodes
                          THEN deserializeNode(lv, nodesData[k].id,
                                               nodesData[k].properties, 1)
                          ELSE lv,
                          nodesData, k + 1)

\* null / undefined passed as data
NoData == [isNull |-> TRUE]

\* Saved data a caller may pass to deserialize: the save of a manager that
\* earned 16 and bought one level of each root property, and a stale save
\* (levels above the maximum and below zero, ids the tree does not have, an
\* entry without a level, a child invested under a parent at 0, no currency
\* fields: data.currency || 0).
SavedData ==
    { [version |-> 2, currency |-> 9, totalEarned |-> 16,
       nodes |-> << [id |-> "dot",
                     properties |-> << [id |-> "dotSpeed", level |-> 1],
                                       [id |-> "coinGain", level |-> 1] >>],
                    [id |-> "attract",
                     properties |-> << [id |-> "attractStrength", level |-> 0] >>],
                    [id |-> "repel",
                     properties |-> << [id |-> "annihalationCost", level |-> 0] >>],
                    [id |-> "attractAdvanced",
                     properties |-> << [id |-> "treatAttraction", level |-> 0] >>],
                    [id |-> "lost",
                     properties |-> << [id |-> "mystery", level |-> 0] >>] >>],
      [currency |-> 0, totalEarned |-> 0,
       nodes |-> << [id |-> "dot",
                     properties |-> << [id |-> "dotSpeed", level |-> 9],
                                       [id |-> "bogus", level |-> 1],
                                       [id |-> "coinGain", level |-> -1] >>],
                    [id |-> "ghost",
                     properties |-> << [id |-> "dotSpeed", level |-> 1] >>],
                    [id |-> "attractAdvanced",
                     properties |-> << [id |-> "treatAttraction", level |-> 1] >>],
                    [id |-> "lost",
                     properties |-> << [id |-> "mystery"] >>] >>] }

\* data.<field> || 0, for a field that is a number when present
OrZero(data, field) == IF field \in DOMAIN data THEN data[field] ELSE 0

\* the levels left by "if (data.nodes) { for (const nodeData of data.nodes) ..."
\* in a manager whose levels were lv
deserializeLevels(lv, data) ==
    IF "nodes" \in DOMAIN data THEN deserializeNodes(lv, data.nodes, 1) ELSE lv

\* the "load" event that ends deserialize: version is data.version || 1
emitLoad(data, stats) ==
    _emit(<<>>, "load",
          [version |-> IF "version" \in DOMAIN data THEN data.version ELSE 1],
          currency', level', stats)

\* deserialize(data)
deserialize(data) ==
    /\ result' = Result("deserialize")
    /\ IF data = NoData
       THEN /\ delivered' = <<>>
            /\ UNCHANGED <<currency, totalEarned, level, statsCache, statsCacheValid>>
       ELSE /\ currency' = OrZero(data, "currency")
            /\ totalEarned' = OrZero(data, "totalEarned")
            /\ level' = deserializeLevels(level, data)
            /\ statsCacheValid' = _invalidateCache(statsCacheValid)
            /\ delivered' =
                   emitLoad(data, getStats(statsCacheValid', statsCache, level'))
            /\ UNCHANGED statsCache

\* the first entry of data.nodes that makes the loop of deserialize throw
\* (nodeData.id of a null entry is a TypeError), 0 if it runs to its end
throwsAt(data) ==
    IF "nodes" \notin DOMAIN data THEN 0
    ELSE IF \E k \in 1..Len(data.nodes) : data.nodes[k] = NoData
    THEN CHOOSE k \in 1..Len(data.nodes) :
             /\ data.nodes[k] = NoData
             /\ \A j \in 1..(k - 1) : data.nodes[j] # NoData
    ELSE 0

\* What localStorage holds under storageKey when load() runs: nothing (getItem
\* returns null), a storage whose getItem throws, text JSON.parse rejects,
\* and text that parses: to null, to the save of a manager that earned 8 and
\* bought nothing, and to a save whose second node entry is null
StoredItems ==
    { [kind |-> "absent"], [kind |-> "throws"], [kind |-> "corrupt"],
      [kind |-> "json", data |-> NoData],
      [kind |-> "json",
       data |-> [version |-> 2, currency |-> 8, totalEarned |-> 8,
                 nodes |-> [k \in 1..Len(nodeConfigs) |->
                              [id |-> nodeConfigs[k].id,
                               properties |->
                                  [i \in 1..Len(nodeConfigs[k].properties) |->
                                     [id |-> nodeConfigs[k].properties[i].id,
                                      level |-> 0]]]]]],
      [kind |-> "json",
       data |-> [version |-> 2, currency |-> 8, totalEarned |-> 8,
                 nodes |-> << [id |-> "dot",
                               properties |-> << [id |-> "dotSpeed", level |-> 1] >>],
                              NoData >>]] }

\* what load() returns: true, or false with what its catch block logs ("" if
\* nothing was thrown)
Loaded(success, error) ==
    [Result("load") EXCEPT !.success = success, !.error = error]

\* the catch block of load() after getItem or JSON.parse threw: nothing of
\* the manager was touched
loadFailed(error) ==
    /\ result' = Loaded(FALSE, error)
    /\ delivered' = <<>>
    /\ UNCHANGED <<currency, totalEarned, level, statsCache, statsCacheValid>>

\* load(): item is what the storage holds
load(item) ==
    CASE item.kind = "throws" -> loadFailed("getItem threw")
      [] item.kind = "absent" ->
             /\ result' = Loaded(FALSE, "")
             /\ delivered' = <<>>
             /\ UNCHANGED <<currency, totalEarned, level, statsCache, statsCacheValid>>
      [] item.kind = "corrupt" -> loadFailed("JSON.parse threw")
      [] item.kind = "json" ->
             LET data == item.data
             IN  IF data = NoData
                 THEN /\ result' = Loaded(TRUE, "")
                      /\ delivered' = <<>>
                      /\ UNCHANGED <<currency, totalEarned, level, statsCache,
                                     statsCacheValid>>
                 ELSE IF throwsAt(data) = 0
                 THEN /\ result' = Loaded(TRUE, "")
                      /\ currency' = OrZero(data, "currency")
                      /\ totalEarned' = OrZero(data, "totalEarned")
                      /\ level' = deserializeLevels(level, data)
                      /\ statsCacheValid' = _invalidateCache(statsCacheValid)
                      /\ delivered' =
                             emitLoad(data, getStats(statsCacheValid', statsCache, level'))
                      /\ UNCHANGED statsCache
                 ELSE \* deserialize threw inside its loop: the fields set and
                      \* the entries applied before stay, _invalidateCache
                      \* and _emit('load') are not reached
                      /\ result' = Loaded(FALSE, "deserialize threw")
                      /\ currency' = OrZero(data, "currency")
                      /\ totalEarned' = OrZero(data, "totalEarned")
                      /\ level' = deserializeNodes(level,
                                       SubSeq(data.nodes, 1, throwsAt(data) - 1), 1)
                      /\ delivered' = <<>>
                      /\ UNCHANGED <<statsCache, statsCacheValid>>

\* PropertyState.serialize()
serializeProperty(nodeId, i) ==
    [id |-> getNode(nodeId).properties[i].id, level |-> level[nodeId][i]]

\* NodeState.serialize()
serializeNode(nodeId) ==
    [id |-> nodeId,
     properties |-> [i \in 1..Len(getNode(nodeId).properties) |->
                        serializeProperty(nodeId, i)]]

\* serialize() writing the balance into both currency fields
serialize_earnedFromCurrency ==
    [version |-> 2, currency |-> currency, totalEarned |-> currency,
     nodes |-> [k \in 1..Len(nodeConfigs) |-> serializeNode(nodeConfigs[k].id)]]

\* UpgradeManager.serialize(): getAllNodes() is in Map order
serialize ==
    [version |-> 2, currency |-> currency, totalEarned |-> totalEarned,
     nodes |-> [k \in 1..Len(nodeConfigs) |-> serializeNode(nodeConfigs[k].id)]]

\* new UpgradeManager(sameOptions).deserialize(this.serialize()): the manager
\* is replaced by a freshly constructed one (currency 0, totalEarned 0, every
\* level 0, empty cache) that is handed the save of the old one
roundTrip ==
    LET data == serialize
    IN  /\ currency' = OrZero(data, "currency")
        /\ totalEarned' = OrZero(data, "totalEarned")
        /\ level' = deserializeLevels(ZeroLevels, data)
        /\ statsCache' = Null
        /\ statsCacheValid' = _invalidateCache(FALSE)
        /\ delivered' = emitLoad(data, getStats(statsCacheValid', statsCache', level'))
        /\ result' = Result("roundTrip")

Next ==
    \/ \E amount \in AddAmounts : addCurrency(amount)
    \/ \E a \in Args : purchaseUpgrade(a[1], a[2])
    \/ \E a \in Args : refundUpgrade(a[1], a[2])
    \/ GetStats
    \/ resetUpgrades
    \/ fullReset

Spec == Init /\ [][Next]_vars

\* The manager with deserialize among its operations
NextLoad ==
    \/ Next
    \/ \E data \in SavedData \cup {NoData} : deserialize(data)

SpecLoad == Init /\ [][NextLoad]_vars

\* The manager saved and rebuilt from its save at any moment
NextRoundTrip ==
    \/ Next
    \/ roundTrip

SpecRoundTrip == Init /\ [][NextRoundTrip]_vars

\* The manager as createUpgradeSystem and the Game constructor set it up:
\* load() is the first call on the freshly constructed manager
NextStorage ==
    \/ Next
    \/ \E item \in StoredItems : result.op = "new" /\ load(item)

SpecStorage == Init /\ [][NextStorage]_vars

(***************************************************************************)
(* Properties                                                               *)
(***************************************************************************)
\* the children of a node, as a set
Children(n) == { c \in nodes : getNode(c).parentId = n }

\* C1: after every successful refundUpgrade(nodeId, propId), every child of
\* that node has no investment or the node's level is at least the child's
\* requiredParentLevel.
C1_RefundNeverLocksInvestedChild ==
    [][(result'.op = "refundUpgrade" /\ result'.success) =>
          \A c \in Children(result'.nodeId) :
              \/ SumSeq(level'[c]) = 0
              \/ SumSeq(level'[result'.nodeId]) >= getNode(c).requiredParentLevel]_vars

\* C1 witness: a refund on the root succeeded while its child "attract" is
\* invested and the root is left exactly at that child's required level
C1_Witness ==
    /\ result.op = "refundUpgrade" /\ result.success /\ result.nodeId = "dot"
    /\ hasInvestment("attract")
    /\ getLevel("dot") = getNode("attract").requiredParentLevel

\* C2: refundUpgrade on an existing property with level > 0 is rejected if
\* and only if some child of the node has investment and the node's level
\* minus one is below that child's requiredParentLevel.
C2_RefundRejectedIffChildWouldLock ==
    [][(/\ result'.op = "refundUpgrade"
        /\ result'.nodeId \in nodes
        /\ result'.propId \in PropIds(result'.nodeId)
        /\ level[result'.nodeId][getProperty(getNode(result'.nodeId),
                                             result'.propId)] > 0) =>
          (~result'.success <=>
              \E c \in Children(result'.nodeId) :
                  /\ SumSeq(level[c]) > 0
                  /\ SumSeq(level[result'.nodeId]) - 1
                        < getNode(c).requiredParentLevel)]_vars

\* C2 witness: with the invested child "attract" requiring level R, a refund
\* on the root at level exactly R was rejected naming that child
C2_Witness ==
    /\ result.op = "refundUpgrade" /\ ~result.success
    /\ result.nodeId = "dot" /\ result.child = "attract"
    /\ hasInvestment("attract")
    /\ getLevel("dot") = getNode("attract").requiredParentLevel

\* C3: every property satisfies 0 <= level <= maxLevel in every state reached
\* through purchaseUpgrade, refundUpgrade, addCurrency, resetUpgrades and
\* fullReset.
C3_LevelWithinBounds ==
    \A n \in nodes : \A i \in DOMAIN level[n] :
        0 <= level[n][i] /\ level[n][i] <= getNode(n).properties[i].maxLevel

\* C3 witness: a property stands at its maxLevel and a further purchase of it
\* was turned down
C3_Witness ==
    /\ result.op = "purchaseUpgrade" /\ ~result.success
    /\ result.error = "Property at max level"
    /\ result.nodeId = "dot" /\ result.propId = "coinGain"
    /\ level["dot"][2] = getNode("dot").properties[2].maxLevel

\* C4: currency >= 0 in every state reached through addCurrency,
\* purchaseUpgrade and refundUpgrade.
C4_CurrencyNonNegative == currency >= 0

\* C4 witness: a purchase that spent the whole balance
C4_Witness ==
    /\ result.op = "purchaseUpgrade" /\ result.success
    /\ result.amount > 0 /\ currency = 0

\* C5: a purchaseUpgrade call that returns success:false leaves currency,
\* totalEarned and every property level unchanged.
C5_FailedPurchaseChangesNothing ==
    [][(result'.op = "purchaseUpgrade" /\ ~result'.success) =>
          /\ currency' = currency
          /\ totalEarned' = totalEarned
          /\ level' = level]_vars

\* C5 witness: a purchase on a locked node was turned down while the manager
\* holds currency and invested levels
C5_Witness ==
    /\ result.op = "purchaseUpgrade" /\ ~result.success
    /\ result.error = "Node is locked" /\ result.propId = "attractStrength"
    /\ currency > 0 /\ getLevel("dot") > 0

\* C6: a successful purchaseUpgrade on a property at level L decreases
\* currency by exactly cost(L+1), raises that property to L+1 and leaves
\* totalEarned and every other property level unchanged.
C6_PurchaseEffect ==
    [][(result'.op = "purchaseUpgrade" /\ result'.success) =>
          LET n == result'.nodeId
              i == getProperty(getNode(n), result'.propId)
          IN  /\ currency' = currency
                    - costCalculator(getNode(n).properties[i], level[n][i] + 1, n)
              /\ level'[n][i] = level[n][i] + 1
              /\ \A m \in nodes : \A j \in DOMAIN level[m] :
                     <<m, j>> # <<n, i>> => level'[m][j] = level[m][j]
              /\ totalEarned' = totalEarned]_vars

\* C6 witness: a purchase brought "coinGain" to level 2, whose cost (5)
\* differs from the cost of level 1 (4), with another property invested
C6_Witness ==
    /\ result.op = "purchaseUpgrade" /\ result.success
    /\ result.propId = "coinGain" /\ result.newLevel = 2 /\ result.amount = 5
    /\ level["dot"][1] = 1

\* C7: purchaseUpgrade reports the error of the first failing check in the
\* order unknown node, locked node, unknown property, max level,
\* insufficient currency.
C7_FirstFailingCheckReported ==
    [][result'.op = "purchaseUpgrade" =>
          LET n == result'.nodeId
              p == result'.propId
          IN  IF n \notin nodes
              THEN result'.error = "Invalid node ID"
              ELSE IF ~isNodeUnlocked(n)
              THEN result'.error = "Node is locked"
              ELSE IF p \notin PropIds(n)
              THEN result'.error = "Invalid property ID"
              ELSE LET i == getProperty(getNode(n), p)
                       property == getNode(n).properties[i]
                   IN  IF level[n][i] >= property.maxLevel
                       THEN result'.error = "Property at max level"
                       ELSE IF currency < costCalculator(property, level[n][i] + 1, n)
                       THEN result'.error = "Insufficient currency"
                       ELSE result'.success /\ result'.error = ""]_vars

\* C7 witness: a locked node asked for a property it does not have answered
\* with the locked error
C7_Witness ==
    /\ result.op = "purchaseUpgrade" /\ ~result.success
    /\ result.nodeId = "attract" /\ result.propId = "bogus"
    /\ result.error = "Node is locked"
    /\ ~isNodeUnlocked("attract")

C9_TotalEarnedNeverDecreases == [][totalEarned' >= totalEarned]_vars

\* C9 amended: addCurrency, purchaseUpgrade, refundUpgrade, resetUpgrades and
\* getStats never make totalEarned smaller; fullReset sets it to 0 and
\* deserialize sets it to the saved value.
C9_TotalEarnedMonotonicExceptResetAndLoad ==
    [][/\ result'.op \notin {"fullReset", "deserialize"} =>
              totalEarned' >= totalEarned
       /\ result'.op = "fullReset" => totalEarned' = 0]_vars

\* C9 witness: resetUpgrades ran with a currency history and kept it
C9_Witness ==
    /\ result.op = "resetUpgrades" /\ totalEarned > 0

EventNames(log) == [k \in 1..Len(log) |-> log[k].event]

\* the node ids the unlock events of a log name
UnlockNotified(log) ==
    UNION { { log[k].data.nodeIds[j] : j \in 1..Len(log[k].data.nodeIds) } :
            k \in { k \in 1..Len(log) : log[k].event = "unlock" } }

\* C11: the unlock notification of a successful purchaseUpgrade names exactly
\* the children of the upgraded node that were locked before the purchase,
\* are unlocked after it and have no investment (and there is no unlock
\* notification when there is no such child); a child that was unlocked
\* before the purchase is not reported again.
C11_UnlockNamesNewlyUnlocked ==
    [][(result'.op = "purchaseUpgrade" /\ result'.success) =>
          LET newly == { c \in Children(result'.nodeId) :
                            /\ ~isNodeUnlocked(c)
                            /\ isNodeUnlocked(c)'
                            /\ ~hasInvestment(c)' }
          IN  /\ UnlockNotified(delivered') = newly
              /\ newly = {} => "unlock" \notin
                     { delivered'[k].event : k \in 1..Len(delivered') }]_vars

\* C12: whenever purchaseUpgrade(n, p) is called, canUpgradeProperty(n, p)
\* asked in the state of the call says canUpgrade:true exactly if the call
\* succeeds, and then with the cost the call deducts; whenever
\* refundUpgrade(n, p) is called, canRefundProperty(n, p) says canRefund:true
\* exactly if the call succeeds, and then with the refund the call pays.
C12_DryRunAgreesWithCall ==
    [][/\ result'.op = "purchaseUpgrade" =>
            LET dry == canUpgradeProperty(result'.nodeId, result'.propId)
            IN  /\ dry.can <=> result'.success
                /\ dry.can => /\ dry.amount = result'.amount
                               /\ dry.amount = currency - currency'
       /\ result'.op = "refundUpgrade" =>
            LET dry == canRefundProperty(result'.nodeId, result'.propId)
            IN  /\ dry.can <=> result'.success
                /\ dry.can => /\ dry.amount = result'.amount
                               /\ dry.amount = currency' - currency]_vars

\* C12 witness: a refund on the root was turned down for its invested child
\* while the property refunded was above level 0 and the balance could have
\* paid a further purchase
C12_Witness ==
    /\ result.op = "refundUpgrade" /\ ~result.success
    /\ result.nodeId = "dot" /\ result.propId = "coinGain"
    /\ result.child = "attract" /\ level["dot"][2] > 0
    /\ ~canRefundProperty("dot", "coinGain").can
    /\ canUpgradeProperty("dot", "coinGain").can

\* C13: a fresh manager of the same configuration that is given
\* deserialize(serialize(s)) has the currency, the totalEarned and the level
\* of every property of s, for every s reached through addCurrency,
\* purchaseUpgrade and refundUpgrade (and the resets).
C13_SaveLoadRoundTrip ==
    [][result'.op = "roundTrip" =>
          /\ currency' = currency
          /\ totalEarned' = totalEarned
          /\ level' = level]_vars

\* C13 witness: a manager that had spent part of what it earned on both root
\* properties and on a child was rebuilt from its save
C13_Witness ==
    /\ result.op = "roundTrip"
    /\ currency > 0 /\ totalEarned > currency
    /\ level["dot"] = <<1, 2>> /\ level["attract"] = <<1>>

\* the numeric levels the entries of saved data give to property p of node n
SavedLevels(data, n, p) ==
    IF "nodes" \notin DOMAIN data THEN {}
    ELSE UNION { { data.nodes[k].properties[j].level :
                     j \in { j \in 1..Len(data.nodes[k].properties) :
                                /\ data.nodes[k].properties[j].id = p
                                /\ "level" \in DOMAIN data.nodes[k].properties[j] } } :
                 k \in { k \in 1..Len(data.nodes) : data.nodes[k].id = n } }

\* node n and its property p are named by an entry of saved data
Occurs(data, n, p) ==
    /\ "nodes" \in DOMAIN data
    /\ \E k \in 1..Len(data.nodes) :
           /\ data.nodes[k].id = n
           /\ \E j \in 1..Len(data.nodes[k].properties) :
                  data.nodes[k].properties[j].id = p

\* C14: after deserialize(data), every property that data gives a numeric
\* level, be it above maxLevel or below 0, has 0 <= level <= maxLevel.
C14_LoadedLevelClamped ==
    [][\A data \in SavedData : deserialize(data) =>
          \A n \in nodes : \A i \in DOMAIN level[n] :
              SavedLevels(data, n, getNode(n).properties[i].id) # {} =>
                  /\ 0 <= level'[n][i]
                  /\ level'[n][i] <= getNode(n).properties[i].maxLevel]_vars

\* C15: after deserialize(data) on a manager in any reachable state, every
\* property whose node id or property id does not occur in data has level 0.
C15_MissingIdsAtZero ==
    [][\A data \in SavedData : deserialize(data) =>
          \A n \in nodes : \A i \in DOMAIN level[n] :
              ~Occurs(data, n, getNode(n).properties[i].id) =>
                  level'[n][i] = 0]_vars

\* C16: entries of saved data that name a node id or property id the tree
\* does not have are ignored by deserialize: the level of every property
\* after it is the saved level (at most maxLevel) of the entry that names the
\* property, wherever that entry stands among unknown ones, and the level
\* before it if no entry gives the property a level.
C16_UnknownIdsIgnored ==
    [][\A data \in SavedData : deserialize(data) =>
          \A n \in nodes : \A i \in DOMAIN level[n] :
              LET saved == SavedLevels(data, n, getNode(n).properties[i].id)
              IN  IF saved = {} THEN level'[n][i] = level[n][i]
                  ELSE \E l \in saved :
                          level'[n][i] = IF l <= getNode(n).properties[i].maxLevel
                                         THEN l
                                         ELSE getNode(n).properties[i].maxLevel]_vars

\* C16 witness: the save with the unknown property "bogus" and the unknown
\* node "ghost" was loaded into a manager with invested levels; the entries
\* behind the unknown ones were applied and "repel", which the save does not
\* name, kept its level
C16_Witness ==
    /\ result.op = "deserialize"
    /\ delivered # <<>> /\ delivered[1].data.version = 1
    /\ level["dot"] = <<1, -1>>
    /\ level["attractAdvanced"] = <<1>>
    /\ level["repel"] = <<1>>

\* C17: when load() fails (the storage throws, the stored text is not JSON,
\* or deserialize throws part-way), it returns false and leaves the manager
\* in the fresh default state: currency 0 and every property at level 0.
C17_FailedLoadLeavesFreshState ==
    [][(result'.op = "load" /\ ~result'.success /\ result'.error # "") =>
          /\ currency' = 0
          /\ level' = ZeroLevels]_vars

\* C18: a purchaseUpgrade or refundUpgrade that fails delivers no event; a
\* purchaseUpgrade that succeeds has delivered, when it returns, upgrade, then
\* currencyChange, then statsChange, then unlock if it has children to name,
\* and the listener of each event found the level, the currency and the stats
\* already updated (and was handed them in the event's data).
C18_EventsAfterMutationInOrder ==
    [][/\ (result'.op \in {"purchaseUpgrade", "refundUpgrade"} /\ ~result'.success) =>
             delivered' = <<>>
       /\ (result'.op = "purchaseUpgrade" /\ result'.success) =>
             LET n == result'.nodeId
                 names == EventNames(delivered')
             IN  /\ Len(names) \in {3, 4}
                 /\ SubSeq(names, 1, 3) = <<"upgrade", "currencyChange", "statsChange">>
                 /\ Len(names) = 4 => names[4] = "unlock"
                 /\ Len(names) = 4 <=>
                        \E c \in Children(n) :
                            /\ SumSeq(level'[n]) >= getNode(c).requiredParentLevel
                            /\ SumSeq(level'[c]) = 0
                 /\ \A k \in 1..Len(delivered') :
                        /\ delivered'[k].level = level'
                        /\ delivered'[k].currency = currency'
                        /\ delivered'[k].stats = aggregate(baseStats, level', 1)
                 /\ delivered'[1].data.newLevel =
                        level'[n][getProperty(getNode(n), result'.propId)]
                 /\ delivered'[1].data.newLevel = result'.newLevel
                 /\ delivered'[2].data.currency = currency'
                 /\ delivered'[3].data.stats = aggregate(baseStats, level', 1)]_vars

\* C18 witness: the purchase of the second level of "coinGain" delivered its
\* four events, the last one the unlock notification
C18_Witness ==
    /\ result.op = "purchaseUpgrade" /\ result.success
    /\ result.propId = "coinGain" /\ result.newLevel = 2
    /\ Len(delivered) = 4 /\ delivered[4].event = "unlock"
    /\ delivered[3].data.stats.coinGain = 200

\* C19: the tier multiplier in the cost purchaseUpgrade charges is 1.0 for the
\* root and for the direct children of the root, 1.5 for grandchildren and
\* 2.0 for nodes three or more parentId links below the root.
C19_TierMultiplierByDepth ==
    [][(result'.op = "purchaseUpgrade" /\ result'.success) =>
          LET n == result'.nodeId
              property == getNode(n).properties[getProperty(getNode(n), result'.propId)]
              links == TierWalk(getNode(n), 0)
              multiplier == TierMultipliers(IF links <= 1 THEN 1
                                            ELSE IF links = 2 THEN 2 ELSE 3)
              config == costTiers(property.costTier)
              baseCost == Ceil(impactScore(property) * config.base * multiplier,
                               1000 * 1000)
              e == result'.newLevel - 1
          IN  result'.amount = Ceil(baseCost * Pow(config.scaling, e), Pow(100, e))]_vars

\* C20: the cost purchaseUpgrade deducts for bringing a property to level L is
\* ceil(baseCost * m(L)), with baseCost = ceil(impactScore * tierMultiplier)
\* and m(L) = 1.15^(L-1) if impactScore > 15, 1 + (L-1)*0.2 if
\* 10 < impactScore <= 15 and 1 + (L-1)*0.1 otherwise.  tierMultiplier is
\* taken here as the multiplier the manager applies (C19 is about its value),
\* so that only the level law is compared.
C20_CostFollowsImpactLaw ==
    [][(result'.op = "purchaseUpgrade" /\ result'.success) =>
          LET n == result'.nodeId
              property == getNode(n).properties[getProperty(getNode(n), result'.propId)]
              score == impactScore(property)
              baseCost == Ceil(score * _getNodeTier(n), 1000)
              e == result'.newLevel - 1
              cost == IF score > 15000
                      THEN Ceil(baseCost * Pow(115, e), Pow(100, e))
                      ELSE IF score > 10000
                      THEN Ceil(baseCost * (10 + 2 * e), 10)
                      ELSE Ceil(baseCost * (10 + e), 10)
          IN  /\ result'.amount = cost
              /\ currency' = currency - cost]_vars

\* C30: a successful purchaseUpgrade never turns an unlocked node into a
\* locked one (every node unlocked before it is unlocked after it), and only
\* children of the upgraded node change between locked and unlocked.
C30_PurchaseNeverLocks ==
    [][(result'.op = "purchaseUpgrade" /\ result'.success) =>
          \A m \in nodes :
              /\ isNodeUnlocked(m) => isNodeUnlocked(m)'
              /\ (isNodeUnlocked(m) # isNodeUnlocked(m)') =>
                     m \in Children(result'.nodeId)]_vars

\* C30 witness: the purchase that took the root from level 1 to level 2
\* unlocked "attract" while "repel", unlocked since level 1, stayed unlocked
C30_Witness ==
    /\ result.op = "purchaseUpgrade" /\ result.success /\ result.nodeId = "dot"
    /\ getLevel("dot") = getNode("attract").requiredParentLevel
    /\ isNodeUnlocked("attract") /\ isNodeUnlocked("repel")
    /\ getNode("repel").requiredParentLevel < getLevel("dot")

(***************************************************************************)
(* Cost functions as pure functions of a property configuration             *)
(***************************************************************************)
\* prop.id.includes('Limit'), decided for the ids of CostIds
IncludesLimit(id) == id \in {"attractLimit", "repelLimit"}

\* prop.id.includes('Radius') || prop.id.includes('Strength')
IncludesRadiusOrStrength(id) ==
    id \in {"attractRadius", "repelRadius", "attractStrength", "repelStrength"}

\* calculateImpactScore(prop) of the legacy tree, in thousandths; the value
\* per level is not taken absolute here
calculateImpactScore(prop) ==
    LET s1 == 1000 + prop.valuePerLevel * 10
        s2 == CASE prop.effectType = "multiply" -> (s1 * 3) \div 2
                [] prop.effectType = "replace"  -> s1 * 2
                [] OTHER                        -> s1
        s3 == s2 * Sqrt(prop.maxLevel)
        s4 == IF IncludesSpawnOrAnnihilation(prop.id) THEN (s3 * 18) \div 10 ELSE s3
        s5 == IF IncludesLimit(prop.id) THEN (s4 * 13) \div 10 ELSE s4
    IN  IF IncludesRadiusOrStrength(prop.id) THEN (s5 * 12) \div 10 ELSE s5

\* calculateTierMultiplier(nodeId) of the legacy tree, in thousandths
calculateTierMultiplier(nodeId) ==
    IF nodeId \in {"attract", "repel", "dot", "investment", "annihalation"} THEN 1000
    ELSE IF nodeId \in {"attractAdvanced", "repelAdvanced", "resurrection"} THEN 1500
    ELSE 2000

\* the cost function with a level multiplier that falls with the level in
\* the middle band
createDynamicCostFunction_falling(prop, nodeId, lvl) ==
    LET impact   == calculateImpactScore(prop)
        baseCost == Ceil(impact * calculateTierMultiplier(nodeId), 1000000)
    IN  IF impact > 15000
        THEN Ceil(baseCost * Pow(115, lvl - 1), Pow(100, lvl - 1))
        ELSE IF impact > 10000
        THEN Ceil(baseCost * (10 - (lvl - 1) * 2), 10)
        ELSE Ceil(baseCost * (10 + (lvl - 1)), 10)

\* createDynamicCostFunction(prop, nodeId)(level):
\* Math.ceil(baseCost * levelMultiplier), the multiplier being 1.15^(level-1)
\* above impact 15, 1 + (level-1)*0.2 above impact 10, 1 + (level-1)*0.1 else
createDynamicCostFunction(prop, nodeId, lvl) ==
    LET impact   == calculateImpactScore(prop)
        baseCost == Ceil(impact * calculateTierMultiplier(nodeId), 1000000)
    IN  IF impact > 15000
        THEN Ceil(baseCost * Pow(115, lvl - 1), Pow(100, lvl - 1))
        ELSE IF impact > 10000
        THEN Ceil(baseCost * (10 + (lvl - 1) * 2), 10)
        ELSE Ceil(baseCost * (10 + (lvl - 1)), 10)

\* calculateUpgradeCost(property, level, nodeId) of the schema: the law of
\* _defaultCostCalculator with CostTiers and getNodeTier, whose node list is
\* the one the manager is built from
calculateUpgradeCost(property, lvl, nodeId) ==
    LET tier       == _getNodeTier(nodeId)
        costConfig == costTiers(property.costTier)
        baseCost   == Ceil(impactScore(property) * costConfig.base * tier, 1000)
    IN  Ceil(baseCost * Pow(costConfig.scaling, lvl - 1), Pow(100, lvl - 1))

\* ids, values per level (thousandths), maximum levels and effect types the
\* cost functions are applied to
CostIds == {"dotSpeed", "attractRadius", "attractLimit", "spawnDotOnTreat"}

CostValues == {-500, 100, 250, 500, 1000}

CostMaxLevels == {1, 4}

\* the { id, valuePerLevel, maxLevel, effectType } objects of createPropertyConfig
LegacyProps ==
    [id : CostIds, valuePerLevel : CostValues, maxLevel : CostMaxLevels,
     effectType : {"multiply", "add", "replace"}]

\* property configurations of the schema
SchemaProps ==
    [id : CostIds, valuePerLevel : CostValues, maxLevel : CostMaxLevels,
     effectType : {"multiply", "add"},
     costTier : {"cheap", "standard", "expensive", "premium"}]

\* the manager as constructed, while a function that does not touch it runs
Untouched ==
    /\ currency = 0
    /\ totalEarned = 0
    /\ level = ZeroLevels
    /\ statsCache = Null
    /\ statsCacheValid = FALSE
    /\ delivered = <<>>

\* a function that reads and writes no field of the manager
Pure == UNCHANGED <<currency, totalEarned, level, statsCache, statsCacheValid,
                    delivered>>

\* a call of a cost function: its arguments, whether it is still to be made
\* and the cost it returned (-1 before it returns)
CostCall(op, property, nodeId, lvl) ==
    [op |-> op, property |-> property, nodeId |-> nodeId, level |-> lvl,
     pending |-> TRUE, cost |-> -1]

\* costFunction(level) of a property built by createPropertyConfig
costFunction ==
    /\ result.op = "costFunction" /\ result.pending
    /\ result' = [result EXCEPT
                     !.pending = FALSE,
                     !.cost = createDynamicCostFunction(result.property,
                                  result.nodeId, result.level)]
    /\ Pure

\* a call of calculateUpgradeCost(property, level, nodeId)
callCalculateUpgradeCost ==
    /\ result.op = "calculateUpgradeCost" /\ result.pending
    /\ result' = [result EXCEPT
                     !.pending = FALSE,
                     !.cost = calculateUpgradeCost(result.property,
                                  result.level, result.nodeId)]
    /\ Pure

\* the calls made: every configuration of LegacyProps on a node of each
\* legacy tier and every configuration of SchemaProps on a node of each
\* depth, at every level up to the maximum
InitCost ==
    /\ Untouched
    /\ \/ \E prop \in LegacyProps, nodeId \in {"dot", "attractAdvanced", "hunterKiller"} :
              \E lvl \in 1..prop.maxLevel :
                  result = CostCall("costFunction", prop, nodeId, lvl)
       \/ \E property \in SchemaProps, nodeId \in {"dot", "attract", "attractAdvanced"} :
              \E lvl \in 1..property.maxLevel :
                  result = CostCall("calculateUpgradeCost", property, nodeId, lvl)

NextCost ==
    \/ costFunction
    \/ callCalculateUpgradeCost

\* the cost functions applied to every configuration of LegacyProps and
\* SchemaProps at every level
SpecCost == InitCost /\ [][NextCost]_vars

\* C21: for every property with impactScore > 10 and every level L with
\* 1 <= L < maxLevel, cost(L+1) >= cost(L), for the cost function of
\* createDynamicCostFunction and for calculateUpgradeCost.
C21_CostMonotonic ==
    /\ (/\ result.op = "costFunction" /\ ~result.pending
        /\ calculateImpactScore(result.property) > 10000
        /\ result.level < result.property.maxLevel)
       => createDynamicCostFunction(result.property, result.nodeId,
                                    result.level + 1) >= result.cost
    /\ (/\ result.op = "calculateUpgradeCost" /\ ~result.pending
        /\ impactScore(result.property) > 10000
        /\ result.level < result.property.maxLevel)
       => calculateUpgradeCost(result.property, result.level + 1,
                               result.nodeId) >= result.cost

\* C21 witness: a property in the middle band (10 < impact <= 15) was priced
\* at level 3 and level 4 costs strictly more
C21_Witness ==
    /\ result.op = "costFunction" /\ ~result.pending
    /\ calculateImpactScore(result.property) > 10000
    /\ calculateImpactScore(result.property) <= 15000
    /\ result.level = 3 /\ result.property.maxLevel = 4
    /\ createDynamicCostFunction(result.property, result.nodeId, 4) > result.cost

(***************************************************************************)
(* Validation of a tree configuration                                       *)
(***************************************************************************)
\* the longest node list handed to validateUpgradeTree
MaxNodes == 3

\* node configurations as the validator reads them: id, isRoot, parentId
\* ("" for none) and complete, which says that name, icon and a non-empty
\* list of valid properties with distinct ids are present
TreeNodes ==
    [id : {"r", "a", "b"}, isRoot : BOOLEAN, parentId : {"", "r", "a", "b"},
     complete : BOOLEAN]

\* validateNode(node, existingNodes): the errors it pushes; existingNodes is
\* read with has() only and is held as the set of its keys
validateNode(node, existingNodes) ==
    IF node.id = "" THEN <<"missing id">>
    ELSE (IF node.id \in existingNodes THEN <<"duplicate id">> ELSE <<>>)
      \o (IF ~node.complete THEN <<"incomplete">> ELSE <<>>)
      \o (IF ~node.isRoot /\ node.parentId = "" THEN <<"no parentId">> ELSE <<>>)
      \o (IF node.parentId # "" /\ node.parentId \notin existingNodes
          THEN <<"unknown parent">> ELSE <<>>)

\* nodes.filter(n => n.parentId === node.id)
childrenOf(nodeList, node) ==
    SelectSeq(nodeList, LAMBDA n : n.parentId = node.id)

RECURSIVE validateQueue(_, _, _, _, _)
\* the while (queue.length > 0) loop of validateUpgradeTree
validateQueue(nodeList, queue, nodeMapKeys, validated, errors) ==
    IF queue = <<>> THEN [validated |-> validated, errors |-> errors]
    ELSE LET node       == Head(queue)
             validation == validateNode(node, nodeMapKeys)
             kept       == validation = <<>> \/ node.isRoot
         IN  validateQueue(nodeList,
                 IF kept THEN Tail(queue) \o childrenOf(nodeList, node)
                 ELSE Tail(queue),
                 IF kept THEN nodeMapKeys \cup {node.id} ELSE nodeMapKeys,
                 IF kept THEN validated \cup {node.id} ELSE validated,
                 errors \o validation)

RECURSIVE RootChain(_, _, _, _)
\* node `to` is reached from node `from` in at most `steps` parent-to-child
\* steps that pass over isRoot nodes only
RootChain(nodeList, from, to, steps) ==
    /\ steps > 0
    /\ \E k \in 1..Len(nodeList) :
          /\ nodeList[k].isRoot /\ nodeList[k].parentId = nodeList[from].id
          /\ (k = to \/ RootChain(nodeList, k, to, steps - 1))

\* the queue never empties: an isRoot node is kept and its children are
\* queued every time it is taken from the queue, so the loop runs for ever
\* exactly when an isRoot node is its own descendant over isRoot nodes
queueNeverEmpties(nodeList) ==
    \E i \in 1..Len(nodeList) :
        nodeList[i].isRoot /\ RootChain(nodeList, i, i, Len(nodeList))

\* validateUpgradeTree(nodes) where it returns: { valid, errors }
\* (warnings do not enter valid)
validateUpgradeTreeResult(nodeList) ==
    LET rootNodes == SelectSeq(nodeList, LAMBDA n : n.isRoot)
        e1 == IF Len(rootNodes) = 0 THEN <<"no root">>
              ELSE IF Len(rootNodes) > 1 THEN <<"multiple roots">> ELSE <<>>
        w  == validateQueue(nodeList, rootNodes, {}, {}, e1)
        orphaned == SelectSeq(nodeList, LAMBDA n : n.id \notin w.validated)
        errors == w.errors \o [k \in 1..Len(orphaned) |-> "orphaned"]
    IN  [valid |-> errors = <<>>, errors |-> errors]

\* a call of validateUpgradeTree(nodes), made or still to be made
validateUpgradeTree ==
    /\ result.op = "validateUpgradeTree" /\ result.pending
    /\ IF queueNeverEmpties(result.nodes)
       THEN result' = [result EXCEPT !.pending = FALSE, !.returned = FALSE]
       ELSE LET r == validateUpgradeTreeResult(result.nodes)
            IN  result' = [result EXCEPT !.pending = FALSE, !.returned = TRUE,
                                         !.valid = r.valid, !.errors = r.errors]
    /\ Pure

\* the node lists validated: every list of up to MaxNodes TreeNodes
InitValidate ==
    /\ Untouched
    /\ \E len \in 1..MaxNodes : \E nodeList \in [1..len -> TreeNodes] :
          result = [op |-> "validateUpgradeTree", nodes |-> nodeList,
                    pending |-> TRUE, returned |-> FALSE, valid |-> FALSE,
                    errors |-> <<>>]

NextValidate == validateUpgradeTree

SpecValidate == InitValidate /\ [][NextValidate]_vars

RECURSIVE ChainEndsAtRoot(_, _, _)
\* following parentId from node n reaches an isRoot node within `steps` links
ChainEndsAtRoot(nodeList, n, steps) ==
    IF n.isRoot THEN TRUE
    ELSE IF steps = 0 \/ n.parentId = "" THEN FALSE
    ELSE \E j \in 1..Len(nodeList) :
            /\ nodeList[j].id = n.parentId
            /\ ChainEndsAtRoot(nodeList, nodeList[j], steps - 1)

\* C22: when validateUpgradeTree(nodes) returns valid:true, nodes holds
\* exactly one isRoot node, all node ids are distinct and the parentId chain
\* of every non-root node ends at the root.
C22_ValidMeansTree ==
    (result.op = "validateUpgradeTree" /\ result.returned /\ result.valid) =>
        LET nodeList == result.nodes
        IN  /\ Cardinality({i \in 1..Len(nodeList) : nodeList[i].isRoot}) = 1
            /\ \A i, j \in 1..Len(nodeList) :
                   nodeList[i].id = nodeList[j].id => i = j
            /\ \A i \in 1..Len(nodeList) :
                   ChainEndsAtRoot(nodeList, nodeList[i], Len(nodeList))

(***************************************************************************)
(* Calls on a manager built from an unvalidated configuration               *)
(***************************************************************************)
\* depth of _getNodeTier counts up to this value and stays there (the loop
\* does not read it); chains of three nodes end below it
MaxDepth == 4

\* ids of the configured nodes: "r" is the root, "a" and "b" are not
TierIds == {"r", "a", "b"}

\* the one property every configured node has
TierProperty ==
    [id |-> "p", valuePerLevel |-> 100, maxLevel |-> 1, effectType |-> "add",
     costTier |-> "cheap"]

\* config.parentId of a node under a configuration ("" for null)
parentOf(call, id) == IF id = "r" THEN "" ELSE call.parents[id]

\* isNodeUnlocked(nodeId) of the manager the call is made on
callNodeUnlocked(call, nodeId) ==
    IF nodeId \notin TierIds THEN FALSE
    ELSE IF nodeId = "r" THEN TRUE
    ELSE IF parentOf(call, nodeId) = "" THEN TRUE
    ELSE IF parentOf(call, nodeId) \notin TierIds THEN FALSE
    ELSE call.lv[parentOf(call, nodeId)] >= call.required

\* the child guard of refundUpgrade and canRefundProperty: some child has
\* investment and newLevel < child.requiredParentLevel
callWouldLockChild(call, nodeId) ==
    \E c \in TierIds \ {"r"} :
        /\ parentOf(call, c) = nodeId
        /\ call.lv[c] > 0
        /\ call.lv[nodeId] - 1 < call.required

\* the call returns before the cost calculator is asked
returnsBeforeCost(call) ==
    IF call.nodeId \notin TierIds THEN TRUE
    ELSE IF call.op \in {"purchaseUpgrade", "canUpgradeProperty"}
    THEN \/ ~callNodeUnlocked(call, call.nodeId)
         \/ call.propId # TierProperty.id
         \/ call.lv[call.nodeId] >= TierProperty.maxLevel
    ELSE \/ call.propId # TierProperty.id
         \/ call.lv[call.nodeId] <= 0
         \/ callWouldLockChild(call, call.nodeId)

\* _defaultCostCalculator once _getNodeTier has returned Math.min(depth, 3)
costAtTier(property, lvl, tier) ==
    LET config   == costTiers(property.costTier)
        baseCost == Ceil(impactScore(property) * config.base * tier, 1000)
    IN  Ceil(baseCost * Pow(config.scaling, lvl - 1), Pow(100, lvl - 1))

\* the call is entered: it returns from one of its guards, or asks the cost
\* calculator, whose _getNodeTier returns 1 for the root and else starts
\* the walk at depth 1
enterCall ==
    /\ result.pc = "called"
    /\ result' =
          IF returnsBeforeCost(result)
          THEN [result EXCEPT !.pc = "returned", !.success = FALSE]
          ELSE IF result.nodeId = "r"
          THEN [result EXCEPT !.pc = "priced", !.depth = 1]
          ELSE [result EXCEPT !.pc = "walking", !.current = result.nodeId,
                              !.depth = 1]
    /\ Pure

\* one test of while (current.parentId) in _getNodeTier and, when it holds,
\* one round of the loop
tierWalkStep ==
    /\ result.pc = "walking"
    /\ result' =
          IF parentOf(result, result.current) = ""
          THEN [result EXCEPT !.pc = "priced"]
          ELSE IF parentOf(result, result.current) \notin TierIds
          THEN [result EXCEPT !.pc = "priced",
                              !.depth = Min(result.depth + 1, MaxDepth)]
          ELSE [result EXCEPT !.current = parentOf(result, result.current),
                              !.depth = Min(result.depth + 1, MaxDepth)]
    /\ Pure

\* the rest of the call once the cost is known
finishCall ==
    /\ result.pc = "priced"
    /\ LET n      == result.nodeId
           buying == result.op \in {"purchaseUpgrade", "canUpgradeProperty"}
           cost   == costAtTier(TierProperty,
                                IF buying THEN result.lv[n] + 1 ELSE result.lv[n],
                                Min(result.depth, 3))
           ok     == ~buying \/ result.cur >= cost
       IN  result' =
             [result EXCEPT
                !.pc = "returned", !.success = ok, !.amount = cost,
                !.cur = IF ok /\ result.op = "purchaseUpgrade" THEN @ - cost
                        ELSE IF result.op = "refundUpgrade" THEN @ + cost ELSE @,
                !.lv = IF ok /\ result.op = "purchaseUpgrade"
                       THEN [@ EXCEPT ![n] = @ + 1]
                       ELSE IF result.op = "refundUpgrade"
                       THEN [@ EXCEPT ![n] = @ - 1] ELSE @]
    /\ Pure

\* the calls made: one call of one of the four operations on a manager whose
\* configuration gives "a" and "b" any parentId (a node, themselves, each
\* other, a missing node or none), with levels as a loaded save can set them
InitCalls ==
    /\ Untouched
    /\ \E op \in {"purchaseUpgrade", "refundUpgrade", "canUpgradeProperty",
                   "canRefundProperty"},
          nodeId \in TierIds \cup {"zz"}, propId \in {"p", "zz"},
          parents \in [{"a", "b"} -> {"", "r", "a", "b", "ghost"}],
          required \in {0, 1}, lv \in [TierIds -> 0..1], cur \in {0, 8} :
          result = [op |-> op, nodeId |-> nodeId, propId |-> propId,
                    parents |-> parents, required |-> required, lv |-> lv,
                    cur |-> cur, pc |-> "called", current |-> "", depth |-> 0,
                    success |-> FALSE, amount |-> -1]

NextCalls ==
    \/ enterCall
    \/ tierWalkStep
    \/ finishCall

\* a call that has started keeps running: JavaScript runs it to completion
SpecCalls == InitCalls /\ [][NextCalls]_vars /\ WF_vars(NextCalls)

\* C23: every purchaseUpgrade, refundUpgrade, canUpgradeProperty and
\* canRefundProperty call terminates with a result, for every node
\* configuration the constructor accepts.
C23_EveryCallReturns == <>(result.pc = "returned")

(***************************************************************************)
(* Physics and the force system                                             *)
(*                                                                          *)
(* Positions, distances and radii are whole pixels; forces, velocities and  *)
(* dt are held in thousandths.  The offsets between entities are chosen so  *)
(* that every distance is a whole number, as Math.sqrt returns it exactly.  *)
(***************************************************************************)
\* a / b rounded toward zero, for b > 0
Quot(a, b) == IF a >= 0 THEN a \div b ELSE -((-a) \div b)

\* Math.max
Max(a, b) == IF a >= b THEN a ELSE b

\* Math.sign
Sign(x) == IF x > 0 THEN 1 ELSE IF x < 0 THEN -1 ELSE 0

\* Physics.minDistance
minDistance == 20

\* entity.x - dot.x and entity.y - dot.y for the pairs the functions are
\* applied to (distances 0, 1, 5, 10, 20, 50, 100, 101, 250, 300, 301, 400)
Offsets ==
    {<<0, 0>>, <<1, 0>>, <<0, -1>>, <<3, 4>>, <<-6, 8>>, <<12, -16>>,
     <<-30, -40>>, <<60, 80>>, <<-100, 0>>, <<0, 101>>, <<150, -200>>,
     <<180, 240>>, <<-300, 0>>, <<0, 301>>, <<240, -320>>}

\* Math.sqrt(dx * dx + dy * dy)
Distance(dx, dy) == Sqrt(dx * dx + dy * dy)

\* no force
NoForce == [fx |-> 0, fy |-> 0]

\* the loop body of calculateMagneticForces with the sign of an attracting
\* magnet for both types
magnetForce_alwaysAttract(dot, magnet) ==
    IF magnet.dead THEN NoForce
    ELSE LET dx       == magnet.x - dot.x
             dy       == magnet.y - dot.y
             distance == Distance(dx, dy)
         IN  IF distance > magnet.radius THEN NoForce
             ELSE LET effectiveDistance == Max(distance, minDistance)
                      forceMagnitude ==
                          Quot(Quot(magnet.strength * magnet.life, effectiveDistance)
                                   * (magnet.radius - distance), magnet.radius)
                  IN  IF distance * 1000 < 1 THEN NoForce
                      ELSE [fx |-> Quot(dx * forceMagnitude, distance),
                            fy |-> Quot(dy * forceMagnitude, distance)]

\* the loop body of Physics.calculateMagneticForces: what one magnet adds to
\* totalFx and totalFy (thousandths); forceMagnitude is
\* strength * life * (1 - distance / radius) / effectiveDistance
magnetForce(dot, magnet) ==
    IF magnet.dead THEN NoForce
    ELSE LET dx       == magnet.x - dot.x
             dy       == magnet.y - dot.y
             distance == Distance(dx, dy)
         IN  IF distance > magnet.radius THEN NoForce
             ELSE LET effectiveDistance == Max(distance, minDistance)
                      forceMagnitude ==
                          Quot(Quot(magnet.strength * magnet.life, effectiveDistance)
                                   * (magnet.radius - distance), magnet.radius)
                  IN  IF distance * 1000 < 1 THEN NoForce
                      ELSE IF magnet.type = "attract"
                      THEN [fx |-> Quot(dx * forceMagnitude, distance),
                            fy |-> Quot(dy * forceMagnitude, distance)]
                      ELSE [fx |-> -Quot(dx * forceMagnitude, distance),
                            fy |-> -Quot(dy * forceMagnitude, distance)]

RECURSIVE calculateMagneticForces(_, _)
\* Physics.calculateMagneticForces(dot, magnets)
calculateMagneticForces(dot, magnets) ==
    IF magnets = <<>> THEN NoForce
    ELSE LET rest == calculateMagneticForces(dot, Tail(magnets))
             f    == magnetForce(dot, Head(magnets))
         IN  [fx |-> f.fx + rest.fx, fy |-> f.fy + rest.fy]

\* Dot.applyForce(fx, fy) / Treat.applyForce(fx, fy)
applyForce(entity, fx, fy) ==
    [entity EXCEPT !.vx = @ + fx, !.vy = @ + fy]

\* the dot after ForceSystem.applyMagneticForces(dot, magnets, dt, physics)
magneticForcesApplied(dot, magnets, dt) ==
    LET forces == calculateMagneticForces(dot, magnets)
    IN  applyForce(dot, Quot(forces.fx * dt, 1000), Quot(forces.fy * dt, 1000))

\* the dot the force functions are applied to: at the centre of an 800 x 600
\* canvas, at rest or moving
ForceDots ==
    {[x |-> 400, y |-> 300, vx |-> v[1], vy |-> v[2], alive |-> TRUE] :
        v \in {<<0, 0>>, <<-50000, 20000>>}}

\* frame times: 16 ms and the 0.1 s cap of the game loop
FrameTimes == {16, 100}

\* new Magnet(x, y, type, upgrades) at an offset from the dot: base strength
\* 80000, radius 100 or 400, full or quarter life, possibly dead
MagnetsAt(dot) ==
    {[x |-> dot.x + o[1], y |-> dot.y + o[2], type |-> t, strength |-> 80000,
      radius |-> r, life |-> l, dead |-> d] :
        o \in Offsets, t \in {"attract", "repel"}, r \in {100, 400},
        l \in {1000, 250}, d \in BOOLEAN}

\* a second magnet in the list: a live attracting one 50 px away
SecondMagnet(dot) ==
    [x |-> dot.x + 30, y |-> dot.y - 40, type |-> "attract", strength |-> 80000,
     radius |-> 100, life |-> 1000, dead |-> FALSE]

\* ForceSystem.applyMagneticForces(dot, magnets, dt, physics)
applyMagneticForces ==
    /\ result.op = "applyMagneticForces" /\ result.pending
    /\ result' = [result EXCEPT
                     !.pending = FALSE,
                     !.after = magneticForcesApplied(result.dot, result.magnets,
                                                     result.dt)]
    /\ Pure

\* the calls of applyMagneticForces: one magnet, or one magnet and a second
InitMagnetic ==
    \E dot \in ForceDots, dt \in FrameTimes :
        \E m \in MagnetsAt(dot) :
            \E magnets \in {<<m>>, <<m, SecondMagnet(dot)>>} :
                result = [op |-> "applyMagneticForces", dot |-> dot,
                          magnets |-> magnets, dt |-> dt, pending |-> TRUE,
                          after |-> dot]

\* maxAttempts of findSafeSpawnPosition
maxAttempts == 50

\* values of Math.random(), in hundredths: 0, 0.5 and 0.99
Randoms == {0, 50, 99}

\* margin + Math.random() * (canvasSize - margin * 2), in tenths of a pixel
samplePosition(margin, canvasSize, random) ==
    margin * 10 + Quot(random * (canvasSize - margin * 2), 10)

\* this.distance(x1, y1, x2, y2) < minDist, for positions in tenths of a
\* pixel and minDist in pixels, compared on the squares
closerThan(x1, y1, x2, y2, minDist) ==
    (x2 - x1) * (x2 - x1) + (y2 - y1) * (y2 - y1) < (minDist * 10) * (minDist * 10)

\* Physics.isPositionClear(x, y, entities, minDistance)
isPositionClear(x, y, entities, minDist) ==
    \A k \in 1..Len(entities) :
        ~closerThan(x, y, entities[k].x, entities[k].y, minDist)

\* one round of the for loop of findSafeSpawnPosition: a sample is drawn and
\* either rejected (continue) or returned
spawnAttempt ==
    /\ result.op = "findSafeSpawnPosition" /\ result.pending
    /\ result.i < maxAttempts
    /\ \E rx, ry \in Randoms :
          LET x == samplePosition(result.margin, result.canvasWidth, rx)
              y == samplePosition(result.margin, result.canvasHeight, ry)
          IN  result' =
                IF closerThan(x, y, result.dot.x, result.dot.y, result.minDistFromDot)
                THEN [result EXCEPT !.i = @ + 1]
                ELSE IF ~isPositionClear(x, y, result.dangers, 80)
                THEN [result EXCEPT !.i = @ + 1]
                ELSE [result EXCEPT !.pending = FALSE, !.x = x, !.y = y]
    /\ Pure

\* the fallback of findSafeSpawnPosition after maxAttempts rejected samples
spawnFallback ==
    /\ result.op = "findSafeSpawnPosition" /\ result.pending
    /\ result.i >= maxAttempts
    /\ \E rx, ry \in Randoms :
          result' = [result EXCEPT
                       !.pending = FALSE,
                       !.x = samplePosition(result.margin, result.canvasWidth, rx),
                       !.y = samplePosition(result.margin, result.canvasHeight, ry)]
    /\ Pure

\* the calls of findSafeSpawnPosition: spawnTreat (margin 50, 100 px from the
\* dot) and spawnDanger (margin radius + 50, 200 px from the dot) on a canvas
\* of the window's size, the dot at its centre, with no danger or one danger
InitSpawn ==
    \E canvasWidth \in {800, 120, 40}, canvasHeight \in {600, 120},
       call \in {<<50, 100>>, <<70, 200>>} :
        \E dangers \in {<<>>, <<[x |-> 1000, y |-> 1000]>>} :
            result = [op |-> "findSafeSpawnPosition",
                      dot |-> [x |-> canvasWidth * 5, y |-> canvasHeight * 5],
                      dangers |-> dangers, canvasWidth |-> canvasWidth,
                      canvasHeight |-> canvasHeight, margin |-> call[1],
                      minDistFromDot |-> call[2], pending |-> TRUE, i |-> 0,
                      x |-> 0, y |-> 0]

\* this.attractionRadius of ForceSystem
attractionRadius == 300

\* the loop body of applyTreatAttraction with the direction taken from the
\* treat to the dot
treatAttractionStep_pushing(dot, treat, strength, dt) ==
    IF treat.collected THEN dot
    ELSE LET dx       == dot.x - treat.x
             dy       == dot.y - treat.y
             distance == Distance(dx, dy)
             attractionStrength == Quot(8000 * strength, 1000)
         IN  IF distance > attractionRadius \/ distance < 1 THEN dot
             ELSE LET forceMagnitude ==
                          Quot(Quot(attractionStrength * 1000, Max(distance, 20))
                                   * (attractionRadius - distance), attractionRadius)
                  IN  applyForce(dot,
                          Quot(Quot(dx * forceMagnitude, distance) * dt, 1000),
                          Quot(Quot(dy * forceMagnitude, distance) * dt, 1000))

\* the loop body of ForceSystem.applyTreatAttraction: the dot after one treat;
\* strength and dt are in thousandths, forceMagnitude is
\* 8000 * strength * (1 - distance / 300) / Math.max(distance, 20)
treatAttractionStep(dot, treat, strength, dt) ==
    IF treat.collected THEN dot
    ELSE LET dx       == treat.x - dot.x
             dy       == treat.y - dot.y
             distance == Distance(dx, dy)
             attractionStrength == Quot(8000 * strength, 1000)
         IN  IF distance > attractionRadius \/ distance < 1 THEN dot
             ELSE LET forceMagnitude ==
                          Quot(Quot(attractionStrength * 1000, Max(distance, 20))
                                   * (attractionRadius - distance), attractionRadius)
                  IN  applyForce(dot,
                          Quot(Quot(dx * forceMagnitude, distance) * dt, 1000),
                          Quot(Quot(dy * forceMagnitude, distance) * dt, 1000))

RECURSIVE treatAttractionApplied(_, _, _, _)
\* the dot after ForceSystem.applyTreatAttraction(dot, treats, strength, dt)
treatAttractionApplied(dot, treats, strength, dt) ==
    IF treats = <<>> THEN dot
    ELSE treatAttractionApplied(treatAttractionStep(dot, Head(treats), strength, dt),
                                Tail(treats), strength, dt)

\* new Treat(x, y) at an offset from the dot, collected or not
TreatsAt(dot) ==
    {[x |-> dot.x + o[1], y |-> dot.y + o[2], vx |-> 0, vy |-> 0,
      collected |-> c] : o \in Offsets, c \in BOOLEAN}

\* a treat 50 px from the dot that has been collected
CollectedTreat(dot) ==
    [x |-> dot.x - 30, y |-> dot.y + 40, vx |-> 0, vy |-> 0, collected |-> TRUE]

\* ForceSystem.applyTreatAttraction(dot, treats, strength, dt)
applyTreatAttraction ==
    /\ result.op = "applyTreatAttraction" /\ result.pending
    /\ result' = [result EXCEPT
                     !.pending = FALSE,
                     !.after = treatAttractionApplied(result.dot, result.treats,
                                                      result.strength, result.dt)]
    /\ Pure

\* the calls of applyTreatAttraction: one treat, alone or after a collected
\* one, with stats.treatAttraction 0.5 or 2.5
InitTreatAttraction ==
    \E dot \in ForceDots, dt \in FrameTimes, strength \in {500, 2500} :
        \E t \in TreatsAt(dot) :
            \E treats \in {<<t>>, <<CollectedTreat(dot), t>>} :
                result = [op |-> "applyTreatAttraction", dot |-> dot,
                          treats |-> treats, strength |-> strength, dt |-> dt,
                          pending |-> TRUE, after |-> dot]

\* one axis of constrainToBounds reflecting toward the outside at the far
\* bound
constrainAxis_sameSign(pos, vel, size, margin, bounce) ==
    IF pos < margin
    THEN [pos |-> margin, vel |-> Quot(Abs(vel) * bounce, 1000)]
    ELSE IF pos > size - margin
    THEN [pos |-> size - margin, vel |-> Quot(Abs(vel) * bounce, 1000)]
    ELSE [pos |-> pos, vel |-> vel]

\* one axis of Physics.constrainToBounds: the if / else if on dot.x and
\* dot.vx (and the same on dot.y and dot.vy); bounce is in thousandths
constrainAxis(pos, vel, size, margin, bounce) ==
    IF pos < margin
    THEN [pos |-> margin, vel |-> Quot(Abs(vel) * bounce, 1000)]
    ELSE IF pos > size - margin
    THEN [pos |-> size - margin, vel |-> -Quot(Abs(vel) * bounce, 1000)]
    ELSE [pos |-> pos, vel |-> vel]

\* the entity after Physics.constrainToBounds(dot, width, height, bounce)
constrained(dot, width, height, bounce) ==
    LET margin == dot.radius
        h == constrainAxis(dot.x, dot.vx, width, margin, bounce)
        v == constrainAxis(dot.y, dot.vy, height, margin, bounce)
    IN  [dot EXCEPT !.x = h.pos, !.vx = h.vel, !.y = v.pos, !.vy = v.vel]

\* Physics.constrainToBounds(dot, width, height, bounce)
constrainToBounds ==
    /\ result.op = "constrainToBounds" /\ result.pending
    /\ result' = [result EXCEPT
                     !.pending = FALSE,
                     !.after = constrained(result.dot, result.width,
                                           result.height, result.bounce)]
    /\ Pure

\* the calls of constrainToBounds: a dot (radius 8) or a treat-sized entity
\* (radius 12) inside, on and beyond each edge of the canvas, moving either
\* way or at rest, with the default bounce 0.5, none and a full one
InitConstrain ==
    \E radius \in {8, 12}, width \in {800, 16, 10}, height \in {600, 24},
       bounce \in {500, 0, 1000} :
        \E x \in {-5, 7, 8, 400, width - 8, width - 7, width + 40},
           y \in {-1, 12, 300, height - 11, height + 3},
           vx \in {-3000, 0, 3000}, vy \in {-250, 0, 999} :
            LET dot == [x |-> x, y |-> y, vx |-> vx, vy |-> vy, radius |-> radius]
            IN  result = [op |-> "constrainToBounds", dot |-> dot,
                          width |-> width, height |-> height, bounce |-> bounce,
                          pending |-> TRUE, after |-> dot]

\* the functions of Physics and ForceSystem applied to the drawn arguments
InitPhysics ==
    /\ Untouched
    /\ \/ InitMagnetic
       \/ InitSpawn
       \/ InitTreatAttraction
       \/ InitConstrain

NextPhysics ==
    \/ applyMagneticForces
    \/ spawnAttempt
    \/ spawnFallback
    \/ applyTreatAttraction
    \/ constrainToBounds

SpecPhysics == InitPhysics /\ [][NextPhysics]_vars

(***************************************************************************)
(* The game tick: which entities Game.update hands to the force system      *)
(*                                                                          *)
(* Positions are left out: every entity is taken to be within every field,  *)
(* so each applyForce call the guards allow is made.  The game is held in   *)
(* the record of the last call: state, the main dot's alive flag, the alive *)
(* flags of this.dots, the collected flags of this.treats, and the impulses *)
(* of the last update, each with the flags its target and source had.       *)
(***************************************************************************)
\* the most additional dots and the most treats on the canvas
MaxDots == 2

MaxTreats == 2

\* the alive flag of dot k of [this.dot, ...this.dots] (0 is the main dot)
dotAlive(g, k) == IF k = 0 THEN g.dot ELSE g.dots[k]

\* applyForcesToAllDots handing every dot to applyAllForces
dotsForced_all(dots) == 1..Len(dots)

\* the dots applyForcesToAllDots hands to applyAllForces:
\* if (!dot.alive) continue
dotsForced(dots) == {k \in 1..Len(dots) : dots[k]}

\* the dots of this.dots the collision checks look at: if (!dot.alive) continue
aliveDots(dots) == {k \in 1..Len(dots) : dots[k]}

\* the treats applyForcesToTreats hands to applyDotAttractsTreats:
\* if (treat.collected) continue, under stats.attractTreats > 0
treatsForced(treats, attractTreats) ==
    IF attractTreats THEN {j \in 1..Len(treats) : ~treats[j]} ELSE {}

\* an applyForce call: its target, the source of the force and the alive /
\* not-collected flags both had when it was made
Impulse(g, target, source) ==
    [target |-> target, source |-> source,
     targetLive |-> IF target[1] = "dot" THEN dotAlive(g, target[2])
                    ELSE ~g.treats[target[2]],
     sourceLive |-> IF source[1] = "dot" THEN dotAlive(g, source[2])
                    ELSE IF source[1] = "treat" THEN ~g.treats[source[2]]
                    ELSE TRUE]

\* applyAllForces(dot, ...): applyMagneticForces always calls applyForce;
\* applyTreatAttraction does for every treat it does not skip
allForces(g, k, treatAttraction) ==
    {Impulse(g, <<"dot", k>>, <<"magnets", 0>>)}
    \cup (IF treatAttraction
          THEN {Impulse(g, <<"dot", k>>, <<"treat", j>>) :
                    j \in {j \in 1..Len(g.treats) : ~g.treats[j]}}
          ELSE {})

\* applyDotAttractsTreats(treat, [this.dot, ...this.dots], ...):
\* if (!dot.alive) continue
dotAttractsTreat(g, j) ==
    {Impulse(g, <<"treat", j>>, <<"dot", k>>) :
         k \in {k \in 0..Len(g.dots) : dotAlive(g, k)}}

\* the applyForce calls of one Game.update in state 'playing': applyAllForces
\* on this.dot, applyForcesToAllDots on this.dots, applyForcesToTreats
forcesOfTick(g, treatAttraction, attractTreats) ==
    allForces(g, 0, treatAttraction)
    \cup UNION {allForces(g, k, treatAttraction) : k \in dotsForced(g.dots)}
    \cup UNION {dotAttractsTreat(g, j) : j \in treatsForced(g.treats, attractTreats)}

\* a sequence of flags without the entries at the positions in gone
Without(flags, gone) ==
    LET kept == {k \in 1..Len(flags) : k \notin gone}
        RECURSIVE Pick(_)
        Pick(k) == IF k > Len(flags) THEN <<>>
                   ELSE IF k \in kept THEN <<flags[k]>> \o Pick(k + 1)
                   ELSE Pick(k + 1)
    IN  Pick(1)

\* Game.update(dt)
update ==
    /\ result.op \in {"Game", "update", "reset", "pause", "resume"}
    /\ IF result.state # "playing"
       THEN result' = [result EXCEPT !.op = "update", !.impulses = {}]
       ELSE \E spawnTreat, treatAttraction, attractTreats, animationsOver,
               dangerHitsDot, chance \in BOOLEAN :
            \E dying \in SUBSET aliveDots(result.dots),
               taken \in SUBSET {j \in 1..Len(result.treats) : ~result.treats[j]} :
              LET \* treatSpawnTimer ran out: spawnTreat()
                  g1 == IF spawnTreat /\ Len(result.treats) < MaxTreats
                        THEN [result EXCEPT !.treats = Append(@, FALSE)]
                        ELSE result
                  forces == forcesOfTick(g1, treatAttraction, attractTreats)
                  \* dead dots whose death animation has run out are removed
                  goneDots == IF animationsOver
                              THEN {k \in 1..Len(g1.dots) : ~g1.dots[k]} ELSE {}
                  \* collected treats whose animation has run out are removed
                  goneTreats == IF animationsOver
                                THEN {j \in 1..Len(g1.treats) : g1.treats[j]} ELSE {}
                  \* danger collisions: the main dot dies (game over), other
                  \* alive dots die
                  dots2 == Without([k \in 1..Len(g1.dots) |->
                                       g1.dots[k] /\ k \notin dying], goneDots)
                  \* treat collisions, and the treat a dying dot leaves when
                  \* Math.random() < stats.spawnTreatOnDeath
                  treats2 == Without([j \in 1..Len(g1.treats) |->
                                         g1.treats[j] \/ j \in taken], goneTreats)
                  treats3 == IF chance /\ (dangerHitsDot \/ dying # {})
                                /\ Len(treats2) < MaxTreats
                             THEN Append(treats2, FALSE) ELSE treats2
                  \* collectTreat: a dot is born at the treat when
                  \* Math.random() < stats.spawnDotOnTreat
                  dots3 == IF chance /\ taken # {} /\ Len(dots2) < MaxDots
                           THEN Append(dots2, TRUE) ELSE dots2
              IN  result' = [op |-> "update",
                             state |-> IF dangerHitsDot THEN "gameOver" ELSE "playing",
                             dot |-> ~dangerHitsDot,
                             dots |-> dots3, treats |-> treats3,
                             impulses |-> forces]
    /\ Pure

\* Game.reset(): a new run with a new dot and empty lists
reset ==
    /\ result.op \in {"Game", "update", "reset", "pause", "resume"}
    /\ result' = [op |-> "reset", state |-> "playing", dot |-> TRUE,
                  dots |-> <<>>, treats |-> <<>>, impulses |-> {}]
    /\ Pure

\* Game.pause()
pause ==
    /\ result.op \in {"Game", "update", "reset", "pause", "resume"}
    /\ result' = [result EXCEPT
                     !.op = "pause", !.impulses = {},
                     !.state = IF @ = "playing" THEN "paused" ELSE @]
    /\ Pure

\* Game.resume()
resume ==
    /\ result.op \in {"Game", "update", "reset", "pause", "resume"}
    /\ result' = [result EXCEPT
                     !.op = "resume", !.impulses = {},
                     !.state = IF @ = "paused" THEN "playing" ELSE @]
    /\ Pure

\* new Game(): the main menu, before the first run
InitGame ==
    /\ Untouched
    /\ result = [op |-> "Game", state |-> "mainMenu", dot |-> TRUE,
                 dots |-> <<>>, treats |-> <<>>, impulses |-> {}]

NextGame ==
    \/ update
    \/ reset
    \/ pause
    \/ resume

SpecGame == InitGame /\ [][NextGame]_vars

(***************************************************************************)
(* getStats() of two managers built from the same node configurations in    *)
(* different orders                                                         *)
(*                                                                          *)
(* _initializeNodes fills the Map in the order of options.nodeConfigs and   *)
(* getStats walks this.nodes.values(), which is that order.  Each node has  *)
(* one property; all of them feed the stat attractStrength or dotSpeed.     *)
(* The values are multiples of 0.5, exact both in thousandths and in        *)
(* doubles.                                                                 *)
(***************************************************************************)
\* the most nodes a manager of this section holds
MaxStatNodes == 3

\* the ids the nodes are given, in the order of the first manager
StatNodeIds == <<"n1", "n2", "n3", "n4">>

\* the properties a node may carry: three effect types on one stat id, and a
\* property of another stat
StatProps ==
    { PropertyState("attractStrength", 1000, 500, 4, "multiply", "cheap"),
      PropertyState("attractStrength", 0, 500, 4, "add", "cheap"),
      PropertyState("attractStrength", 1000, 2000, 4, "replace", "cheap"),
      PropertyState("dotSpeed", 1000, 1000, 4, "multiply", "cheap") }

\* the levels the properties are at
StatLevels == {1, 2}

\* the orders in which the second manager is handed the same configurations
StatOrders ==
    {order \in [1..MaxStatNodes -> 1..MaxStatNodes] :
        \A i, j \in 1..MaxStatNodes : (order[i] = order[j]) => (i = j)}

RECURSIVE aggregateMap(_, _, _, _)
\* for (const node of this.nodes.values()) over the Map _initializeNodes
\* filled from configs, from node k on
aggregateMap(stats, configs, lv, k) ==
    IF k > Len(configs) THEN stats
    ELSE aggregateMap(aggregateNode(stats, configs[k], lv, 1), configs, lv, k + 1)

\* new UpgradeManager({nodeConfigs}) with the levels set, then getStats(), for
\* the configurations as drawn and for the same configurations reordered
getStatsInBothOrders ==
    /\ result.op = "getStats" /\ result.pending
    /\ LET reordered == [k \in 1..Len(result.configs) |->
                            result.configs[result.order[k]]]
       IN  result' = [result EXCEPT
                         !.pending = FALSE,
                         !.stats = aggregateMap(baseStats, result.configs, result.lv, 1),
                         !.statsReordered = aggregateMap(baseStats, reordered,
                                                         result.lv, 1)]
    /\ Pure

InitStats ==
    /\ Untouched
    /\ \E props \in [1..MaxStatNodes -> StatProps],
          lvls \in [1..MaxStatNodes -> StatLevels], order \in StatOrders :
          result = [op |-> "getStats", pending |-> TRUE,
                    configs |-> [k \in 1..MaxStatNodes |->
                                    NodeState(StatNodeIds[k], "", 0, k = 1,
                                              <<props[k]>>)],
                    lv |-> [id \in {StatNodeIds[k] : k \in 1..MaxStatNodes} |->
                               <<lvls[CHOOSE k \in 1..MaxStatNodes :
                                          StatNodeIds[k] = id]>>],
                    order |-> order,
                    stats |-> baseStats, statsReordered |-> baseStats]

NextStats == getStatsInBothOrders

SpecStats == InitStats /\ [][NextStats]_vars

\* C24: every non-dead magnet adds no force when its distance to the dot is
\* at least magnet.radius, and when 0.001 < distance < magnet.radius it adds
\* a force of strictly positive magnitude, toward the magnet for attract and
\* away from it for repel; applyMagneticForces with one magnet in the list
\* changes the dot's velocity by that force times dt.
C24_FalloffBoundary ==
    (result.op = "applyMagneticForces" /\ ~result.pending) =>
        \A i \in 1..Len(result.magnets) :
            LET magnet   == result.magnets[i]
                dx       == magnet.x - result.dot.x
                dy       == magnet.y - result.dot.y
                distSq   == dx * dx + dy * dy
                f        == magnetForce(result.dot, magnet)
                toward   == IF magnet.type = "attract" THEN 1 ELSE -1
            IN  ~magnet.dead =>
                  /\ distSq >= magnet.radius * magnet.radius => f = NoForce
                  /\ (distSq > 0 /\ distSq < magnet.radius * magnet.radius) =>
                        /\ f # NoForce
                        /\ Sign(f.fx) = toward * Sign(dx)
                        /\ Sign(f.fy) = toward * Sign(dy)
                  /\ Len(result.magnets) = 1 =>
                        /\ result.after.vx - result.dot.vx = Quot(f.fx * result.dt, 1000)
                        /\ result.after.vy - result.dot.vy = Quot(f.fy * result.dt, 1000)
                        /\ Sign(result.after.vx - result.dot.vx) = Sign(f.fx)
                        /\ Sign(result.after.vy - result.dot.vy) = Sign(f.fy)

\* C24 witness: a live repelling magnet 301 px below the dot, inside its
\* 400 px field, pushed the dot upward and left its horizontal speed alone
C24_Witness ==
    /\ result.op = "applyMagneticForces" /\ ~result.pending
    /\ Len(result.magnets) = 1
    /\ LET magnet == result.magnets[1]
       IN  /\ ~magnet.dead /\ magnet.type = "repel" /\ magnet.radius = 400
           /\ magnet.x - result.dot.x = 0 /\ magnet.y - result.dot.y = 301
           /\ result.after.vy < result.dot.vy /\ result.after.vx = result.dot.vx

\* C25: findSafeSpawnPosition returns after at most 50 rejected samples, and
\* the point it returns lies within the canvas (0 <= x <= canvasWidth and
\* 0 <= y <= canvasHeight), for any anchor, obstacle list, canvas size and
\* margin, including when every sample is rejected.
C25_SpawnWithinCanvas ==
    result.op = "findSafeSpawnPosition" =>
        /\ result.i <= maxAttempts
        /\ ~result.pending =>
              /\ 0 <= result.x /\ result.x <= result.canvasWidth * 10
              /\ 0 <= result.y /\ result.y <= result.canvasHeight * 10

\* C26: for an uncollected treat at distance d with 1 <= d <= 300 (strength
\* and dt positive) applyTreatAttraction changes the dot's velocity by a
\* vector whose x and y components have the signs of treat.x - dot.x and
\* treat.y - dot.y; a collected treat and a treat at distance > 300 or < 1
\* change nothing.
C26_PullTowardTreat ==
    (result.op = "applyTreatAttraction" /\ ~result.pending) =>
        LET treat  == result.treats[Len(result.treats)]
            dx     == treat.x - result.dot.x
            dy     == treat.y - result.dot.y
            distSq == dx * dx + dy * dy
            dvx    == result.after.vx - result.dot.vx
            dvy    == result.after.vy - result.dot.vy
        IN  IF ~treat.collected /\ distSq >= 1
               /\ distSq <= attractionRadius * attractionRadius
            THEN Sign(dvx) = Sign(dx) /\ Sign(dvy) = Sign(dy)
            ELSE dvx = 0 /\ dvy = 0

\* C26 as the code has it: the pull has the signs of (dx, dy) for
\* 1 <= d < 300; at d = 300 exactly the falloff factor is 0 and the velocity
\* is unchanged, as it is for collected treats and for d > 300 or d < 1.
C26_PullTowardTreatInsideRadius ==
    (result.op = "applyTreatAttraction" /\ ~result.pending) =>
        LET treat  == result.treats[Len(result.treats)]
            dx     == treat.x - result.dot.x
            dy     == treat.y - result.dot.y
            distSq == dx * dx + dy * dy
            dvx    == result.after.vx - result.dot.vx
            dvy    == result.after.vy - result.dot.vy
        IN  IF ~treat.collected /\ distSq >= 1
               /\ distSq < attractionRadius * attractionRadius
            THEN Sign(dvx) = Sign(dx) /\ Sign(dvy) = Sign(dy)
            ELSE dvx = 0 /\ dvy = 0

\* C26 witness: an uncollected treat 5 px away, right of and below the
\* dot, listed after a collected one, pulled the dot right and down
C26_Witness ==
    /\ result.op = "applyTreatAttraction" /\ ~result.pending
    /\ Len(result.treats) = 2 /\ result.treats[1].collected
    /\ ~result.treats[2].collected
    /\ result.treats[2].x - result.dot.x = 3
    /\ result.treats[2].y - result.dot.y = 4
    /\ result.after.vx > result.dot.vx /\ result.after.vy > result.dot.vy

\* C29: after constrainToBounds(entity, width, height, bounce) with width and
\* height at least 2 * radius, radius <= x <= width - radius and
\* radius <= y <= height - radius; a velocity component changes only on an
\* axis whose bound was crossed, and then it points back inside with
\* magnitude |v| * bounce.
C29_ConstrainedInsideBounds ==
    (/\ result.op = "constrainToBounds" /\ ~result.pending
     /\ result.width >= 2 * result.dot.radius
     /\ result.height >= 2 * result.dot.radius) =>
        LET before == result.dot
            after  == result.after
            radius == before.radius
            back(v) == Quot(Abs(v) * result.bounce, 1000)
        IN  /\ radius <= after.x /\ after.x <= result.width - radius
            /\ radius <= after.y /\ after.y <= result.height - radius
            /\ after.vx # before.vx =>
                  \/ before.x < radius /\ after.vx = back(before.vx)
                  \/ before.x > result.width - radius /\ after.vx = -back(before.vx)
            /\ after.vy # before.vy =>
                  \/ before.y < radius /\ after.vy = back(before.vy)
                  \/ before.y > result.height - radius /\ after.vy = -back(before.vy)
            /\ before.x < radius => after.vx = back(before.vx)
            /\ before.x > result.width - radius => after.vx = -back(before.vx)
            /\ before.y < radius => after.vy = back(before.vy)
            /\ before.y > result.height - radius => after.vy = -back(before.vy)

\* C29 witness: a dot 40 px beyond the right edge and moving outward was put
\* on the edge with half its speed, pointing left, while it stayed inside
\* vertically and kept its vertical speed
C29_Witness ==
    /\ result.op = "constrainToBounds" /\ ~result.pending
    /\ result.width = 800 /\ result.dot.x = 840 /\ result.dot.vx = 3000
    /\ result.bounce = 500
    /\ result.after.x = 800 - result.dot.radius /\ result.after.vx = -1500
    /\ result.dot.y = 300 /\ result.after.y = 300
    /\ result.dot.vy = 999 /\ result.after.vy = 999

\* C27: in every game tick no impulse is applied to a dot with alive = false
\* or to a treat with collected = true, and no impulse comes from a dead dot
\* or a collected treat.
C27_NoForceOnOrFromDeadEntities ==
    result.op = "update" =>
        \A imp \in result.impulses : imp.targetLive /\ imp.sourceLive

\* C27 witness: a tick that applied forces while a dead dot was in this.dots
\* and a collected treat in this.treats: a living dot was pulled by a treat
\* and pulled a treat
C27_Witness ==
    /\ result.op = "update"
    /\ \E imp \in result.impulses : imp.target[1] = "dot" /\ imp.source[1] = "treat"
    /\ \E imp \in result.impulses : imp.target[1] = "treat" /\ imp.source[1] = "dot"
    /\ \E imp \in result.impulses : imp.target = <<"dot", 2>>
    /\ ~ \E imp \in result.impulses : imp.target = <<"dot", 1>>
    /\ ~ \E imp \in result.impulses : imp.source = <<"treat", 1>>
    /\ \E imp \in result.impulses : imp.source = <<"treat", 2>>

\* C28: getStats() does not depend on the order in which the nodes were
\* inserted: two managers holding the same nodes at the same levels return
\* the same stats, also when several properties share a stat id.
C28_StatsIndependentOfOrder ==
    (result.op = "getStats" /\ ~result.pending) =>
        result.stats = result.statsReordered

(***************************************************************************)
(* Listeners: on(event, callback), its unsubscribe function, and _emit      *)
(*                                                                          *)
(* One event name.  this._listeners[event] is held in the record of the     *)
(* last call as a sequence of callbacks, each with the number of its        *)
(* registration and what it does when called: nothing to the manager        *)
(* ("plain"), throw ("throws"), or call the unsubscribe function on()       *)
(* returned for it ("unsubscribesSelf").                                    *)
(***************************************************************************)
\* the most on() calls made on a manager
MaxListeners == 4

\* the function on() returns: indexOf(callback), splice(idx, 1) if found
unsubscribe(listeners, id) ==
    SelectSeq(listeners, LAMBDA cb : cb.id # id)

RECURSIVE deliver(_, _, _)
\* for (const callback of listeners) { try { callback(data) } catch ... }:
\* the array iterator reads listeners[idx - 1] of the array as it is when the
\* step is taken and ends when idx passes its length; answers the callbacks
\* invoked, in order, and the array left
deliver(listeners, idx, invoked) ==
    IF idx > Len(listeners) THEN [listeners |-> listeners, invoked |-> invoked]
    ELSE LET callback == listeners[idx]
         IN  deliver(IF callback.kind = "unsubscribesSelf"
                     THEN unsubscribe(listeners, callback.id) ELSE listeners,
                     idx + 1, Append(invoked, callback.id))

\* on(event, callback) with a callback of the given kind
on(kind) ==
    /\ result.op \in {"UpgradeManager", "on", "_emit"}
    /\ result.registered < MaxListeners
    /\ result' = [op |-> "on",
                  listeners |-> Append(result.listeners,
                                       [id |-> result.registered + 1, kind |-> kind]),
                  registered |-> result.registered + 1,
                  before |-> <<>>, invoked |-> <<>>]
    /\ Pure

\* _emit(event, data) of a call that emits the event once
emitToListeners ==
    /\ result.op \in {"UpgradeManager", "on", "_emit"}
    /\ LET d == deliver(result.listeners, 1, <<>>)
       IN  result' = [op |-> "_emit", listeners |-> d.listeners,
                      registered |-> result.registered,
                      before |-> result.listeners, invoked |-> d.invoked]
    /\ Pure

\* purchaseUpgrade(nodeId, propId) on the root, whose children hold no
\* investment, with a listener of 'upgrade' that re-enters the manager on the
\* same property: the guards, "Perform upgrade", the listener's call during
\* _emit('upgrade', ...), and the object returned after the last _emit
purchaseUpgradeReentered ==
    /\ result.op = "purchaseUpgrade" /\ result.pending
    /\ LET prop == getNode(result.nodeId).properties[result.i]
           cost == costCalculator(prop, result.level + 1, result.nodeId)
           \* this.currency -= cost; prop.upgrade()
           cur1 == result.currency - cost
           lvl1 == upgrade(result.level, prop.maxLevel)
           \* the listener's purchaseUpgrade: its own guards and upgrade
           cost2 == costCalculator(prop, lvl1 + 1, result.nodeId)
           bought == result.reenter = "purchaseUpgrade"
                     /\ lvl1 < prop.maxLevel /\ cur1 >= cost2
           \* the listener's refundUpgrade: canRefund holds, no child blocks
           refunded == result.reenter = "refundUpgrade" /\ lvl1 > 0
           lvl2 == IF bought THEN upgrade(lvl1, prop.maxLevel)
                   ELSE IF refunded THEN refund(lvl1) ELSE lvl1
           cur2 == IF bought THEN cur1 - cost2
                   ELSE IF refunded
                   THEN cur1 + costCalculator(prop, lvl1, result.nodeId)
                   ELSE cur1
       IN  IF ~(result.level < prop.maxLevel)
           THEN result' = [result EXCEPT !.pending = FALSE, !.success = FALSE,
                                         !.error = "Property at max level"]
           ELSE IF ~(result.currency >= cost)
           THEN result' = [result EXCEPT !.pending = FALSE, !.success = FALSE,
                                         !.error = "Insufficient currency",
                                         !.cost = cost]
           ELSE result' = [result EXCEPT
                              !.pending = FALSE, !.success = TRUE,
                              !.cost = cost, !.deducted = result.currency - cur1,
                              \* newLevel: prop.level, read at the return
                              !.newLevel = lvl2,
                              !.levelAfter = lvl2, !.currencyAfter = cur2]
    /\ Pure

\* either new UpgradeManager() with this._listeners empty, or a manager with
\* levels on the root only, about to be asked for a purchase while a listener
\* of 'upgrade' calls purchaseUpgrade or refundUpgrade on the same property
\* once ("" for a listener that leaves the manager alone)
InitListeners ==
    /\ Untouched
    /\ \/ result = [op |-> "UpgradeManager", listeners |-> <<>>,
                    registered |-> 0, before |-> <<>>, invoked |-> <<>>]
       \/ \E i \in 1..Len(getNode("dot").properties),
             cur \in 0..MaxEarned,
             reenter \in {"", "purchaseUpgrade", "refundUpgrade"} :
          \E lvl \in 0..getNode("dot").properties[i].maxLevel :
              result = [op |-> "purchaseUpgrade", pending |-> TRUE,
                        nodeId |-> "dot", i |-> i, level |-> lvl,
                        currency |-> cur, reenter |-> reenter,
                        success |-> FALSE, error |-> "", cost |-> -1,
                        deducted |-> 0, newLevel |-> -1,
                        levelAfter |-> lvl, currencyAfter |-> cur]

NextListeners ==
    \/ \E kind \in {"plain", "throws", "unsubscribesSelf"} : on(kind)
    \/ emitToListeners
    \/ purchaseUpgradeReentered

SpecListeners == InitListeners /\ [][NextListeners]_vars

(***************************************************************************)
(* The legacy UpgradeTree: upgradeProperty on a property whose costFunction *)
(* was built by createPropertyConfig                                        *)
(***************************************************************************)
\* UpgradeTree.upgradeProperty(nodeId, propId) for a node and property the
\* tree holds: node.isUnlocked, prop.getUpgradeCost() (Infinity at maxLevel),
\* the currency check, prop.upgrade() and the deduction of what it returned
upgradeProperty ==
    /\ result.op = "upgradeProperty" /\ result.pending
    /\ LET prop == result.property
           atMax == result.level >= prop.maxLevel
           \* getUpgradeCost(): this.costFunction(this.level + 1)
           cost == createDynamicCostFunction(prop, result.nodeId, result.level + 1)
           \* upgrade(): this.level++; return cost
           spent == cost
       IN  IF ~result.unlocked \/ atMax \/ cost > result.currency
           THEN result' = [result EXCEPT !.pending = FALSE, !.returned = FALSE]
           ELSE IF spent > 0
           THEN result' = [result EXCEPT !.pending = FALSE, !.returned = TRUE,
                                         !.levelAfter = result.level + 1,
                                         !.currencyAfter = result.currency - spent]
           ELSE result' = [result EXCEPT !.pending = FALSE, !.returned = FALSE,
                                         !.levelAfter = result.level + 1]
    /\ Pure

\* a legacy tree holding one of the property configurations of LegacyProps on
\* the root at some level, with some currency, the node unlocked or not
InitLegacy ==
    /\ Untouched
    /\ \E prop \in LegacyProps, cur \in {0, 3, 40}, unlocked \in BOOLEAN :
       \E lvl \in 0..prop.maxLevel :
           result = [op |-> "upgradeProperty", pending |-> TRUE,
                     property |-> prop, nodeId |-> "dot", unlocked |-> unlocked,
                     level |-> lvl, currency |-> cur, returned |-> FALSE,
                     levelAfter |-> lvl, currencyAfter |-> cur]

NextLegacy == upgradeProperty

SpecLegacy == InitLegacy /\ [][NextLegacy]_vars

(***************************************************************************)
(* validateUpgradeTree, one round of its while loop at a time               *)
(*                                                                          *)
(* The record of the call holds the queue, the keys of nodeMap, the set     *)
(* validated and whether errors is still empty (the array itself only       *)
(* grows and is read once, for valid).                                      *)
(***************************************************************************)
\* the longest queue followed
MaxQueue == 6

\* one round of while (queue.length > 0): shift, validateNode, and for a
\* node that is valid or isRoot the two set operations and the push of its
\* children
validateQueueStep ==
    /\ result.op = "validateUpgradeTree" /\ result.pc = "looping"
    /\ result.queue # <<>>
    /\ LET node       == Head(result.queue)
           validation == validateNode(node, result.nodeMapKeys)
           kept       == validation = <<>> \/ node.isRoot
           queue      == IF kept
                         THEN Tail(result.queue) \o childrenOf(result.nodes, node)
                         ELSE Tail(result.queue)
       IN  /\ Len(queue) <= MaxQueue
           /\ result' = [result EXCEPT
                            !.queue = queue,
                            !.nodeMapKeys = IF kept THEN @ \cup {node.id} ELSE @,
                            !.validated = IF kept THEN @ \cup {node.id} ELSE @,
                            !.noErrors = @ /\ validation = <<>>]
    /\ Pure

\* the rest of validateUpgradeTree once the queue is empty: the orphan check
\* and the return of { valid, errors, warnings }
validateReturn ==
    /\ result.op = "validateUpgradeTree" /\ result.pc = "looping"
    /\ result.queue = <<>>
    /\ LET orphaned == SelectSeq(result.nodes,
                                 LAMBDA n : n.id \notin result.validated)
       IN  result' = [result EXCEPT
                         !.pc = "returned",
                         !.noErrors = @ /\ orphaned = <<>>,
                         !.valid = result.noErrors /\ orphaned = <<>>]
    /\ Pure

\* validateUpgradeTree(nodes) up to its while loop, for every list of up to
\* MaxNodes node configurations with all their fields
InitQueue ==
    /\ Untouched
    /\ \E len \in 1..MaxNodes :
       \E nodeList \in [1..len -> {n \in TreeNodes : n.complete}] :
          LET rootNodes == SelectSeq(nodeList, LAMBDA n : n.isRoot)
          IN  result = [op |-> "validateUpgradeTree", nodes |-> nodeList,
                        pc |-> "looping", queue |-> rootNodes,
                        nodeMapKeys |-> {}, validated |-> {},
                        noErrors |-> Len(rootNodes) = 1, valid |-> FALSE]

NextQueue ==
    \/ validateQueueStep
    \/ validateReturn

\* the call keeps running: JavaScript runs it to completion
SpecQueue == InitQueue /\ [][NextQueue]_vars /\ WF_vars(NextQueue)

(***************************************************************************)
(* Game.update seen from its treats: spawning, removal, and the treat       *)
(* collisions of the main dot and of this.dots, with collectTreat           *)
(*                                                                          *)
(* Which treats a dot touches is chosen freely each tick.  A treat carries  *)
(* its collected flag and the number of times collectTreat has counted it   *)
(* (runScore++ and addCurrency(1)); the record of the tick carries what the *)
(* tick added to runScore and to the currency.                              *)
(***************************************************************************)
\* the most dots that can collect (the main dot and this.dots together)
MaxCollectors == 2

\* Treat.collect() that answers true without setting the flag
collect_forgets(treat) == treat

\* Treat.collect() on a treat that is not collected: this.collected = true
collect(treat) == [treat EXCEPT !.collected = TRUE]

\* Physics.checkTreatCollisions(dot, treats): the first treat that is not
\* collected and touches the dot, 0 for null
checkTreatCollisions(treats, touched) ==
    IF \E j \in 1..Len(treats) : ~treats[j].collected /\ j \in touched
    THEN CHOOSE j \in 1..Len(treats) :
             /\ ~treats[j].collected /\ j \in touched
             /\ \A i \in 1..(j - 1) : treats[i].collected \/ i \notin touched
    ELSE 0

\* Game.collectTreat(treat): if (treat.collect()) { runScore++;
\* addCurrency(1); ... a dot is born when Math.random() < spawnDotOnTreat }
collectTreat(g, j, chance) ==
    IF g.treats[j].collected THEN g
    ELSE [g EXCEPT !.treats[j] = [collect(@) EXCEPT !.credits = @ + 1],
                   !.scoreGain = @ + 1, !.currencyGain = @ + 1,
                   !.dots = IF chance /\ Len(@) + 1 < MaxCollectors
                            THEN Append(@, TRUE) ELSE @]

RECURSIVE treatCollisions(_, _, _, _)
\* the treat collisions of update: the main dot (k = 0), then
\* for (const dot of this.dots) { if (!dot.alive) continue; ... }, over the
\* array as collectTreat leaves it
treatCollisions(g, k, touched, chance) ==
    IF k > Len(g.dots) THEN g
    ELSE LET hit == IF k > 0 /\ ~g.dots[k] THEN 0
                    ELSE checkTreatCollisions(g.treats, touched[k])
         IN  treatCollisions(IF hit = 0 THEN g ELSE collectTreat(g, hit, chance),
                             k + 1, touched, chance)

\* Game.update(dt) in state 'playing'
updateTreats ==
    /\ result.op \in {"startGame", "updateTreats"}
    /\ result.state = "playing"
    /\ \E spawned, animationsOver, chance, dangerHitsDot \in BOOLEAN :
          LET \* dead dots and collected treats whose animation ran out go
              dots1 == SelectSeq(result.dots, LAMBDA alive : alive \/ ~animationsOver)
              treats1 == SelectSeq(result.treats,
                                   LAMBDA t : ~t.collected \/ ~animationsOver)
              \* spawnTreat(), or the treat handleDotDeath leaves
              treats2 == IF spawned /\ Len(treats1) < MaxTreats
                         THEN Append(treats1, [collected |-> FALSE, credits |-> 0])
                         ELSE treats1
              n == Len(treats2)
          IN  \E dying \in {{}, aliveDots(dots1)},
                 touched \in [0..(MaxCollectors - 1) ->
                                 {{}, 1..n} \cup {{j} : j \in 1..n}] :
                 LET \* danger collisions: no dot of this.dots dies or all
                     \* alive ones do, the main dot dies with gameOver()
                     g1 == [result EXCEPT
                               !.op = "updateTreats",
                               !.state = IF dangerHitsDot THEN "gameOver"
                                         ELSE "playing",
                               !.dots = [k \in 1..Len(dots1) |->
                                            dots1[k] /\ k \notin dying],
                               !.treats = treats2,
                               !.scoreGain = 0, !.currencyGain = 0]
                     g2 == treatCollisions(g1, 0, touched, chance)
                     collectors == {0} \cup {k \in 1..Len(g2.dots) : g2.dots[k]}
                 IN  result' =
                        [g2 EXCEPT
                           !.flipped = Cardinality(
                               {j \in 1..n : g2.treats[j].collected
                                             /\ ~treats2[j].collected}),
                           !.contested =
                               \E j \in 1..n : \E k1, k2 \in collectors :
                                   k1 # k2 /\ j \in touched[k1] /\ j \in touched[k2],
                           !.late =
                               \E j \in 1..n : \E k \in collectors :
                                   treats2[j].collected /\ j \in touched[k]]
    /\ Pure

\* Game.reset(): a new run, this.dots and this.treats empty
startGame ==
    /\ result.op \in {"startGame", "updateTreats"}
    /\ result' = [op |-> "startGame", state |-> "playing", dots |-> <<>>,
                  treats |-> <<>>, scoreGain |-> 0, currencyGain |-> 0,
                  flipped |-> 0, contested |-> FALSE, late |-> FALSE]
    /\ Pure

InitTreats ==
    /\ Untouched
    /\ result = [op |-> "startGame", state |-> "playing", dots |-> <<>>,
                 treats |-> <<>>, scoreGain |-> 0, currencyGain |-> 0,
                 flipped |-> 0, contested |-> FALSE, late |-> FALSE]

NextTreats ==
    \/ updateTreats
    \/ startGame

SpecTreats == InitTreats /\ [][NextTreats]_vars

(***************************************************************************)
(* The default tree (UpgradeNodes) with an unbounded supply of currency     *)
(*                                                                          *)
(* canAfford never fails and costs are left out.  A run buys and refunds    *)
(* on the nodes of one path from the root to a leaf, the other nodes        *)
(* staying at level 0: a purchase looks at the parent's level only and a    *)
(* refund at the children's, so the nodes off the path neither help nor     *)
(* block a call on the path.  The record holds the path and the property    *)
(* levels of its nodes.                                                     *)
(***************************************************************************)
\* UpgradeNodes: id, parentId ("" for none), requiredParentLevel, isRoot and
\* the maxLevel of each property, in the order of the array
UpgradeNodes ==
    << [id |-> "dot", parentId |-> "", requiredParentLevel |-> 0,
        isRoot |-> TRUE, maxLevels |-> <<5>>],
       [id |-> "attract", parentId |-> "dot", requiredParentLevel |-> 0,
        isRoot |-> FALSE, maxLevels |-> <<10, 8>>],
       [id |-> "repel", parentId |-> "dot", requiredParentLevel |-> 0,
        isRoot |-> FALSE, maxLevels |-> <<10, 8>>],
       [id |-> "annihalation", parentId |-> "dot", requiredParentLevel |-> 3,
        isRoot |-> FALSE, maxLevels |-> <<8>>],
       [id |-> "investment", parentId |-> "dot", requiredParentLevel |-> 1,
        isRoot |-> FALSE, maxLevels |-> <<10, 5>>],
       [id |-> "attractAdvanced", parentId |-> "attract",
        requiredParentLevel |-> 14, isRoot |-> FALSE, maxLevels |-> <<5, 5, 10>>],
       [id |-> "repelAdvanced", parentId |-> "repel",
        requiredParentLevel |-> 5, isRoot |-> FALSE, maxLevels |-> <<5, 5>>],
       [id |-> "resurrection", parentId |-> "annihalation",
        requiredParentLevel |-> 5, isRoot |-> FALSE, maxLevels |-> <<10, 10>>],
       [id |-> "hunterKiller", parentId |-> "resurrection",
        requiredParentLevel |-> 5, isRoot |-> FALSE, maxLevels |-> <<10, 10>>] >>

\* isNodeUnlocked comparing the parent's highest property level, not the
\* sum of its property levels, with requiredParentLevel
defaultUnlocked_highestProperty(lv, k) ==
    LET node == UpgradeNodes[k]
    IN  IF node.isRoot \/ node.parentId = "" THEN TRUE
        ELSE IF \A p \in 1..Len(UpgradeNodes) : UpgradeNodes[p].id # node.parentId
        THEN FALSE
        ELSE \E p \in 1..Len(UpgradeNodes) :
                /\ UpgradeNodes[p].id = node.parentId
                /\ p \in DOMAIN lv
                /\ \E i \in 1..Len(lv[p]) : lv[p][i] >= node.requiredParentLevel

\* isNodeUnlocked(nodeId) in the default tree, for levels lv on the nodes of
\* the path and 0 elsewhere
defaultUnlocked(lv, k) ==
    LET node == UpgradeNodes[k]
    IN  IF node.isRoot \/ node.parentId = "" THEN TRUE
        ELSE IF \A p \in 1..Len(UpgradeNodes) : UpgradeNodes[p].id # node.parentId
        THEN FALSE
        ELSE \E p \in 1..Len(UpgradeNodes) :
                /\ UpgradeNodes[p].id = node.parentId
                /\ (IF p \in DOMAIN lv THEN SumSeq(lv[p]) ELSE 0)
                       >= node.requiredParentLevel

\* a successful purchaseUpgrade(nodeId, propId) on a node of the path
purchaseInDefaultTree ==
    /\ result.op = "UpgradeNodes"
    /\ \E k \in DOMAIN result.lv : \E i \in 1..Len(result.lv[k]) :
          /\ defaultUnlocked(result.lv, k)
          /\ result.lv[k][i] < UpgradeNodes[k].maxLevels[i]
          /\ result' = [result EXCEPT !.lv[k][i] = @ + 1]
    /\ Pure

\* a successful refundUpgrade(nodeId, propId) on a node of the path: the
\* property is above 0 and no child with investment would be locked
refundInDefaultTree ==
    /\ result.op = "UpgradeNodes"
    /\ \E k \in DOMAIN result.lv : \E i \in 1..Len(result.lv[k]) :
          /\ result.lv[k][i] > 0
          /\ \A c \in DOMAIN result.lv :
                (UpgradeNodes[c].parentId = UpgradeNodes[k].id
                 /\ SumSeq(result.lv[c]) > 0)
                    => ~(SumSeq(result.lv[k]) - 1 < UpgradeNodes[c].requiredParentLevel)
          /\ result' = [result EXCEPT !.lv[k][i] = @ - 1]
    /\ Pure

\* a fresh manager built from UpgradeNodes, and the path the run stays on:
\* a leaf with all its ancestors
InitDefaultTree ==
    /\ Untouched
    /\ \E path \in { {1, 2, 6}, {1, 3, 7}, {1, 4, 8, 9}, {1, 5} } :
          result = [op |-> "UpgradeNodes",
                    lv |-> [k \in path |->
                               [i \in 1..Len(UpgradeNodes[k].maxLevels) |-> 0]]]

NextDefaultTree ==
    \/ purchaseInDefaultTree
    \/ refundInDefaultTree

SpecDefaultTree == InitDefaultTree /\ [][NextDefaultTree]_vars

(***************************************************************************)
(* A manager that is only earned for, bought from and refunded to           *)
(***************************************************************************)
NextEconomy ==
    \/ \E amount \in AddAmounts : addCurrency(amount)
    \/ \E a \in Args : purchaseUpgrade(a[1], a[2])
    \/ \E a \in Args : refundUpgrade(a[1], a[2])

SpecEconomy == Init /\ [][NextEconomy]_vars

\* C31: after any sequence of addCurrency, purchaseUpgrade and refundUpgrade
\* calls on a fresh manager, every node with hasInvestment() is unlocked.
C31_InvestedNodesUnlocked ==
    \A n \in nodes : hasInvestment(n) => isNodeUnlocked(n)

\* C31 witness: a refund on the root was turned down for the invested child
\* "attract", which is still invested and unlocked at exactly its gate
C31_Witness ==
    /\ result.op = "refundUpgrade" /\ result.nodeId = "dot" /\ ~result.success
    /\ result.child = "attract"
    /\ hasInvestment("attract") /\ isNodeUnlocked("attract")
    /\ getLevel("dot") = getNode("attract").requiredParentLevel

\* C32: in a single-root tree, every ancestor on the parentId chain of an
\* invested node is itself unlocked, in every state reached through
\* purchaseUpgrade and refundUpgrade.  The nodes looked at are those whose
\* chain ends at the root.
C32_AncestorsOfInvestedUnlocked ==
    LET RECURSIVE Ancestors(_)
        Ancestors(n) == IF getNode(n).parentId \in nodes
                        THEN {getNode(n).parentId} \cup Ancestors(getNode(n).parentId)
                        ELSE {}
        rooted == {n \in nodes : getNode(n).isRoot
                                 \/ \E a \in Ancestors(n) : getNode(a).isRoot}
    IN  \A n \in rooted :
            hasInvestment(n) => \A a \in Ancestors(n) : isNodeUnlocked(a)

\* C33: currency plus, over all properties, cost(1) + ... + cost(level)
\* equals totalEarned after any sequence of addCurrency, purchaseUpgrade and
\* refundUpgrade calls on a fresh manager.
C33_CurrencyConserved ==
    LET RECURSIVE Paid(_, _, _)
        Paid(n, i, lvl) ==
            IF lvl <= 0 THEN 0
            ELSE costCalculator(getNode(n).properties[i], lvl, n) + Paid(n, i, lvl - 1)
        RECURSIVE PaidNode(_, _)
        PaidNode(n, i) ==
            IF i > Len(getNode(n).properties) THEN 0
            ELSE Paid(n, i, level[n][i]) + PaidNode(n, i + 1)
        RECURSIVE PaidAll(_)
        PaidAll(ns) ==
            IF ns = {} THEN 0
            ELSE LET n == CHOOSE m \in ns : TRUE
                 IN  PaidNode(n, 1) + PaidAll(ns \ {n})
    IN  currency + PaidAll(nodes) = totalEarned

\* C33 witness: a level bought twice and refunded once in between or after,
\* with levels held on two nodes and currency left over
C33_Witness ==
    /\ result.op = "refundUpgrade" /\ result.success
    /\ level["dot"][2] >= 2 /\ hasInvestment("repel")
    /\ currency > 0 /\ currency < totalEarned

\* C34: a callback that calls its own unsubscribe function during delivery
\* does not keep any other callback registered for the event from being
\* invoked for this emission: every callback registered when _emit was
\* called has been invoked when it returns.
C34_SelfUnsubscribeSkipsNobody ==
    result.op = "_emit" =>
        \A k \in 1..Len(result.before) :
            \E j \in 1..Len(result.invoked) : result.invoked[j] = result.before[k].id

\* C37: a successful purchaseUpgrade reports newLevel equal to the level the
\* property had before the call plus one, and cost equal to the amount this
\* call deducted, also when a listener re-enters purchaseUpgrade or
\* refundUpgrade on the same property during delivery.
C37_ReportedLevelAndCost ==
    (result.op = "purchaseUpgrade" /\ ~result.pending /\ result.success) =>
        /\ result.newLevel = result.level + 1
        /\ result.cost = result.deducted

\* C35: whenever the legacy UpgradeTree.upgradeProperty returns false, no
\* property level and no currency has changed, for every cost the property's
\* cost function can return.
C35_FailedLegacyUpgradeChangesNothing ==
    (result.op = "upgradeProperty" /\ ~result.pending /\ ~result.returned) =>
        /\ result.levelAfter = result.level
        /\ result.currencyAfter = result.currency

\* C36: validateUpgradeTree terminates and returns a result for every finite
\* list of node configurations, also when a node marked isRoot is its own
\* parent or the parent chains of isRoot nodes form a cycle.
C36_ValidationReturns == <>(result.pc = "returned")

C39_EveryNodeCanBeMaxed ==
    result.op = "UpgradeNodes" =>
        \/ \A k \in DOMAIN result.lv : \A i \in 1..Len(result.lv[k]) :
              result.lv[k][i] = UpgradeNodes[k].maxLevels[i]
        \/ ENABLED purchaseInDefaultTree

\* C39 witness: the root and attract's first property are at maxLevel,
\* attract is at level 13 of the 14 that attractAdvanced asks for, and
\* attractAdvanced is locked and empty
C39_Witness ==
    /\ result.op = "UpgradeNodes" /\ DOMAIN result.lv = {1, 2, 6}
    /\ result.lv[1] = <<5>> /\ result.lv[2] = <<10, 3>>
    /\ result.lv[6] = <<0, 0, 0>>
    /\ ~defaultUnlocked(result.lv, 6)

====
